---- MODULE Spec2Model ----
(***************************************************************************)
(* Lead validation, CSV import reconciliation and the in-memory rate       *)
(* limiter of Estatesync.                                                  *)
(*                                                                         *)
(* Strings are sequences of one-character strings, so that trim, split,    *)
(* parseInt and the regular expressions are computed character by          *)
(* character.  A JavaScript value is a record [t, s, n, a]: t is its type  *)
(* ("undefined", "string", "number", "NaN", "array"), s its characters     *)
(* when a string, n its value when a number, a its elements when an array  *)
(* of strings.                                                             *)
(***************************************************************************)
EXTENDS Integers, Sequences, FiniteSets, TLC

\* fn: the function or handler that was called, "none" before the call
\* input: its arguments; returned: what it returned
\* buyers: the rows of the buyers table
\* history: the calls of validateCSVData made so far by one process, in
\*          order, each with its batch and its result
\* limiter: an InMemoryRateLimiter, with its fields store (a set of entries
\*          [key, count, resetTime], one per key), windowMs and maxRequests
\* clock: what Date.now() returns
\* calls: the calls of limiter.isAllowed made so far, in order, each with its
\*        identifier, the time of the call and its result
VARIABLES fn, input, returned, rowsAfter, buyers, buyerHistory, lastId, createBuyerLimiter,
          updateBuyerLimiter, history, limiter, clock, calls

vars ==
  <<fn, input, returned, rowsAfter, buyers, buyerHistory, lastId, createBuyerLimiter,
    updateBuyerLimiter, history, limiter, clock, calls>>

serverVars == <<lastId, createBuyerLimiter, updateBuyerLimiter>>

limiterVars == <<limiter, clock, calls>>

(***************************************************************************)
(* JavaScript values                                                       *)
(***************************************************************************)
Undefined == [t |-> "undefined", s |-> <<>>, n |-> 0, a |-> <<>>]

Null == [t |-> "null", s |-> <<>>, n |-> 0, a |-> <<>>]

Str(s) == [t |-> "string", s |-> s, n |-> 0, a |-> <<>>]

Num(n) == [t |-> "number", s |-> <<>>, n |-> n, a |-> <<>>]

NaN == [t |-> "NaN", s |-> <<>>, n |-> 0, a |-> <<>>]

Arr(a) == [t |-> "array", s |-> <<>>, n |-> 0, a |-> a]

\* `value`, computed once, handed to `In`: what a const declaration is in
\* the code
Let(value, In(_)) == CHOOSE out \in {In(v) : v \in {value}} : TRUE

\* ToBoolean: undefined, null, "", 0 and NaN are falsy
Truthy(v) ==
  CASE v.t \in {"undefined", "null"} -> FALSE
    [] v.t = "string" -> v.s # <<>>
    [] v.t = "number" -> v.n # 0
    [] v.t = "NaN" -> FALSE
    [] OTHER -> TRUE

(***************************************************************************)
(* Characters and the string functions the code calls                      *)
(***************************************************************************)
WhiteSpace == {" ", "\t"}

Digit == {"0", "1", "2", "3", "4", "5", "6", "7", "8", "9"}

Letter ==
  {"a", "b", "c", "d", "e", "f", "g", "h", "i", "j", "k", "l", "m",
   "n", "o", "p", "q", "r", "s", "t", "u", "v", "w", "x", "y", "z",
   "A", "B", "C", "D", "E", "F", "G", "H", "I", "J", "K", "L", "M",
   "N", "O", "P", "Q", "R", "S", "T", "U", "V", "W", "X", "Y", "Z"}

DigitValue(c) ==
  CASE c = "0" -> 0 [] c = "1" -> 1 [] c = "2" -> 2 [] c = "3" -> 3
    [] c = "4" -> 4 [] c = "5" -> 5 [] c = "6" -> 6 [] c = "7" -> 7
    [] c = "8" -> 8 [] c = "9" -> 9

\* String.prototype.trim
trim(s) ==
  IF \A i \in 1..Len(s) : s[i] \in WhiteSpace
  THEN <<>>
  ELSE LET first == CHOOSE i \in 1..Len(s) :
                      s[i] \notin WhiteSpace /\ \A j \in 1..(i - 1) : s[j] \in WhiteSpace
           last == CHOOSE i \in 1..Len(s) :
                     s[i] \notin WhiteSpace /\ \A j \in (i + 1)..Len(s) : s[j] \in WhiteSpace
       IN SubSeq(s, first, last)

\* String.prototype.split with a one-character separator
RECURSIVE split(_, _)
split(s, sep) ==
  IF \A i \in 1..Len(s) : s[i] # sep
  THEN <<s>>
  ELSE LET i == CHOOSE k \in 1..Len(s) : s[k] = sep /\ \A j \in 1..(k - 1) : s[j] # sep
       IN <<SubSeq(s, 1, i - 1)>> \o split(SubSeq(s, i + 1, Len(s)), sep)

\* value of a sequence of decimal digits
RECURSIVE DigitsValue(_)
DigitsValue(ds) ==
  IF ds = <<>> THEN 0
  ELSE 10 * DigitsValue(SubSeq(ds, 1, Len(ds) - 1)) + DigitValue(ds[Len(ds)])

\* parseInt(s, 10): leading white space is skipped, a sign is read, then the
\* longest prefix of digits; no digit gives NaN
parseInt(s) ==
  LET lead == IF \A i \in 1..Len(s) : s[i] \in WhiteSpace THEN Len(s)
              ELSE (CHOOSE i \in 1..Len(s) :
                      s[i] \notin WhiteSpace /\ \A j \in 1..(i - 1) : s[j] \in WhiteSpace) - 1
      t == SubSeq(s, lead + 1, Len(s))
      signed == t # <<>> /\ t[1] \in {"+", "-"}
      body == IF signed THEN Tail(t) ELSE t
      k == IF \A i \in 1..Len(body) : body[i] \in Digit THEN Len(body)
           ELSE (CHOOSE i \in 1..Len(body) :
                   body[i] \notin Digit /\ \A j \in 1..(i - 1) : body[j] \in Digit) - 1
      magnitude == DigitsValue(SubSeq(body, 1, k))
  IN IF k = 0 THEN NaN
     ELSE IF signed /\ t[1] = "-" THEN Num(0 - magnitude) ELSE Num(magnitude)

\* String(n), the argument of parseInt when the cell holds a number
RECURSIVE NumberToString(_)
NumberToString(n) ==
  IF n < 0 THEN <<"-">> \o NumberToString(0 - n)
  ELSE IF n < 10 THEN <<CHOOSE c \in Digit : DigitValue(c) = n>>
  ELSE NumberToString(n \div 10) \o <<CHOOSE c \in Digit : DigitValue(c) = n % 10>>

StringOf(v) == IF v.t = "number" THEN NumberToString(v.n) ELSE v.s

\* the exception a call of trim or split throws on a value that has no such
\* method, as the value of the expression that throws it
TypeError == [thrown |-> "TypeError"]

IsThrown(v) == "thrown" \in DOMAIN v

\* row.x?.trim()
OptTrim(v) == IF v.t = "undefined" THEN Undefined ELSE Str(trim(v.s))

\* v || w
Or(v, w) == IF Truthy(v) THEN v ELSE w

\* a split-and-trim that keeps the empty pieces
splitTagsKeepEmpty(s) ==
  LET pieces == split(s, ",")
  IN [i \in 1..Len(pieces) |-> trim(pieces[i])]

\* row.tags.split(',').map(tag => tag.trim()).filter(Boolean)
splitTags(s) ==
  LET pieces == split(s, ",")
      trimmed == [i \in 1..Len(pieces) |-> trim(pieces[i])]
      NonEmpty(p) == p # <<>>
  IN SelectSeq(trimmed, NonEmpty)

(***************************************************************************)
(* buyerSchema: the closed sets of the enum fields                         *)
(***************************************************************************)
CityEnum ==
  {<<"C", "h", "a", "n", "d", "i", "g", "a", "r", "h">>,
   <<"M", "o", "h", "a", "l", "i">>,
   <<"Z", "i", "r", "a", "k", "p", "u", "r">>,
   <<"P", "a", "n", "c", "h", "k", "u", "l", "a">>,
   <<"O", "t", "h", "e", "r">>}

PropertyTypeEnum ==
  {<<"A", "p", "a", "r", "t", "m", "e", "n", "t">>,
   <<"V", "i", "l", "l", "a">>,
   <<"P", "l", "o", "t">>,
   <<"O", "f", "f", "i", "c", "e">>,
   <<"R", "e", "t", "a", "i", "l">>}

BhkEnum ==
  {<<"1">>,
   <<"2">>,
   <<"3">>,
   <<"4">>,
   <<"S", "t", "u", "d", "i", "o">>}

PurposeEnum ==
  {<<"B", "u", "y">>,
   <<"R", "e", "n", "t">>}

TimelineEnum ==
  {<<"0", "-", "3", "m">>,
   <<"3", "-", "6", "m">>,
   <<">", "6", "m">>,
   <<"E", "x", "p", "l", "o", "r", "i", "n", "g">>}

SourceEnum ==
  {<<"W", "e", "b", "s", "i", "t", "e">>,
   <<"R", "e", "f", "e", "r", "r", "a", "l">>,
   <<"W", "a", "l", "k", "-", "i", "n">>,
   <<"C", "a", "l", "l">>,
   <<"O", "t", "h", "e", "r">>}

StatusEnum ==
  {<<"N", "e", "w">>,
   <<"Q", "u", "a", "l", "i", "f", "i", "e", "d">>,
   <<"C", "o", "n", "t", "a", "c", "t", "e", "d">>,
   <<"V", "i", "s", "i", "t", "e", "d">>,
   <<"N", "e", "g", "o", "t", "i", "a", "t", "i", "o", "n">>,
   <<"C", "o", "n", "v", "e", "r", "t", "e", "d">>,
   <<"D", "r", "o", "p", "p", "e", "d">>}

Apartment == <<"A", "p", "a", "r", "t", "m", "e", "n", "t">>

Villa == <<"V", "i", "l", "l", "a">>

New == <<"N", "e", "w">>

(***************************************************************************)
(* buyerSchema: the field schemas.  An issue carries the path of its       *)
(* field, its message and whether parsing continues after it: the checks   *)
(* of a string or number (min, max, regex, positive) and the refinements   *)
(* continue, a wrong type or a value outside an enum does not.             *)
(***************************************************************************)
Issue(path, message, continue) ==
  [path |-> path, message |-> message, continue |-> continue]

MinNameLen == 2

MaxNameLen == 80

MinPhoneLen == 10

MaxPhoneLen == 15

MaxNotesLen == 1000

\* a phoneRegex that counts characters and takes any: /^.{10,15}$/
phoneRegexAnyCharacter(s) ==
  /\ Len(s) >= 10
  /\ Len(s) <= 15

\* /^\d{10,15}$/
phoneRegex(s) ==
  /\ Len(s) >= 10
  /\ Len(s) <= 15
  /\ \A i \in 1..Len(s) : s[i] \in Digit

\* z.string().email(): one "@"; before it characters of [A-Za-z0-9_'+-.],
\* not starting with ".", ending in one of [A-Za-z0-9_+-]; no ".." anywhere;
\* after it dot-separated labels of [A-Za-z0-9-] starting with a letter or
\* digit, the last one of two letters or more
isEmail(s) ==
  LET ats == {i \in 1..Len(s) : s[i] = "@"}
      at == CHOOSE i \in ats : TRUE
      local == SubSeq(s, 1, at - 1)
      labels == split(SubSeq(s, at + 1, Len(s)), ".")
      tld == labels[Len(labels)]
  IN /\ Cardinality(ats) = 1
     /\ local # <<>>
     /\ local[1] # "."
     /\ \A i \in 1..Len(local) : local[i] \in Letter \cup Digit \cup {"_", "'", "+", "-", "."}
     /\ local[Len(local)] \in Letter \cup Digit \cup {"_", "+", "-"}
     /\ \A i \in 1..(Len(s) - 1) : ~(s[i] = "." /\ s[i + 1] = ".")
     /\ Len(labels) >= 2
     /\ \A k \in 1..(Len(labels) - 1) :
          /\ labels[k] # <<>>
          /\ labels[k][1] \in Letter \cup Digit
          /\ \A i \in 1..Len(labels[k]) : labels[k][i] \in Letter \cup Digit \cup {"-"}
     /\ Len(tld) >= 2
     /\ \A i \in 1..Len(tld) : tld[i] \in Letter

\* z.string().min(2, ...).max(80, ...)
fullNameSchema(v) ==
  IF v.t # "string"
  THEN <<Issue("fullName", "Invalid input: expected string", FALSE)>>
  ELSE (IF Len(v.s) < MinNameLen
        THEN <<Issue("fullName", "Full name must be at least 2 characters", TRUE)>>
        ELSE <<>>)
       \o (IF Len(v.s) > MaxNameLen
           THEN <<Issue("fullName", "Full name must not exceed 80 characters", TRUE)>>
           ELSE <<>>)

\* z.string().email(...).optional().or(z.literal("")): of the two options
\* only the first fails with an issue that continues, and the union
\* reports that option's issue
emailSchema(v) ==
  IF v.t = "undefined" THEN <<>>
  ELSE IF v.t # "string" THEN <<Issue("email", "Invalid input", FALSE)>>
  ELSE IF v.s = <<>> \/ isEmail(v.s) THEN <<>>
  ELSE <<Issue("email", "Invalid email address", TRUE)>>

\* z.string().regex(phoneRegex, ...).min(10, ...).max(15, ...)
phoneSchema(v) ==
  IF v.t # "string"
  THEN <<Issue("phone", "Invalid input: expected string", FALSE)>>
  ELSE (IF ~phoneRegex(v.s)
        THEN <<Issue("phone", "Phone must be 10-15 digits only", TRUE)>>
        ELSE <<>>)
       \o (IF Len(v.s) < MinPhoneLen
           THEN <<Issue("phone", "Phone must be at least 10 digits", TRUE)>>
           ELSE <<>>)
       \o (IF Len(v.s) > MaxPhoneLen
           THEN <<Issue("phone", "Phone must not exceed 15 digits", TRUE)>>
           ELSE <<>>)

\* an enum field declared optional: undefined passes
enumSchemaOptional(path, members, v) ==
  IF v.t = "undefined" \/ (v.t = "string" /\ v.s \in members) THEN <<>>
  ELSE <<Issue(path, "Invalid option", FALSE)>>

\* z.enum([...]) at `path`
enumSchema(path, members, v) ==
  IF v.t = "string" /\ v.s \in members THEN <<>>
  ELSE <<Issue(path, "Invalid option", FALSE)>>

\* an optional enum field declared as a plain optional string
optionalEnumSchemaAsString(path, members, v) ==
  IF v.t \in {"undefined", "string"} THEN <<>>
  ELSE <<Issue(path, "Invalid input: expected string", FALSE)>>

\* z.enum([...]).optional() and z.enum([...]).default(...)
optionalEnumSchema(path, members, v) ==
  IF v.t = "undefined" THEN <<>> ELSE enumSchema(path, members, v)

\* Number(s) for a string of white space, an optional sign and decimal
\* digits: 0 when nothing is left after trimming, NaN when anything else is
ToNumber(s) ==
  LET t == trim(s)
      signed == t # <<>> /\ t[1] \in {"+", "-"}
      body == IF signed THEN Tail(t) ELSE t
  IN IF t = <<>> THEN Num(0)
     ELSE IF body = <<>> \/ \E i \in 1..Len(body) : body[i] \notin Digit THEN NaN
     ELSE IF t[1] = "-" THEN Num(0 - DigitsValue(body)) ELSE Num(DigitsValue(body))

\* z.coerce.number(): Number(input); .optional() lets undefined through
\* before it
coerceNumber(v) ==
  CASE v.t \in {"undefined", "number", "NaN"} -> v
    [] v.t = "null" -> Num(0)
    [] v.t = "string" -> ToNumber(v.s)
    [] OTHER -> NaN

\* a budget schema that lets 0 through
budgetSchemaNonNegative(path, v) ==
  CASE coerceNumber(v).t = "undefined" -> <<>>
    [] coerceNumber(v).t = "NaN" ->
         <<Issue(path, "Invalid input: expected number, received NaN", FALSE)>>
    [] coerceNumber(v).t = "number" ->
         IF coerceNumber(v).n >= 0 THEN <<>>
         ELSE <<Issue(path, "Too small: expected number to be >0", TRUE)>>

\* z.coerce.number().int().positive().optional()
budgetSchema(path, v) ==
  CASE coerceNumber(v).t = "undefined" -> <<>>
    [] coerceNumber(v).t = "NaN" ->
         <<Issue(path, "Invalid input: expected number, received NaN", FALSE)>>
    [] coerceNumber(v).t = "number" ->
         IF coerceNumber(v).n > 0 THEN <<>>
         ELSE <<Issue(path, "Too small: expected number to be >0", TRUE)>>

\* z.string().max(1000, ...).optional()
notesSchema(v) ==
  IF v.t = "undefined" THEN <<>>
  ELSE IF v.t # "string" THEN <<Issue("notes", "Invalid input: expected string", FALSE)>>
  ELSE IF Len(v.s) > MaxNotesLen
  THEN <<Issue("notes", "Notes must not exceed 1000 characters", TRUE)>>
  ELSE <<>>

\* z.array(z.string()).default([])
tagsSchema(v) ==
  IF v.t \in {"undefined", "array"} THEN <<>>
  ELSE <<Issue("tags", "Invalid input: expected array", FALSE)>>

\* z.string().url(): what the URL constructor parses, here a scheme (a
\* letter, then letters, digits, "+", "-", "."), a colon and a rest that
\* is not empty and holds no white space
isUrl(s) ==
  \E colon \in 2..(Len(s) - 1) :
    /\ s[colon] = ":"
    /\ s[1] \in Letter
    /\ \A i \in 2..(colon - 1) : s[i] \in Letter \cup Digit \cup {"+", "-", "."}
    /\ \A i \in (colon + 1)..Len(s) : s[i] \notin WhiteSpace

\* z.string().url(...).optional().or(z.literal(""))
attachmentUrlSchema(v) ==
  IF v.t = "undefined" THEN <<>>
  ELSE IF v.t # "string" THEN <<Issue("attachmentUrl", "Invalid input", FALSE)>>
  ELSE IF v.s = <<>> \/ isUrl(v.s) THEN <<>>
  ELSE <<Issue("attachmentUrl", "Invalid attachment URL", TRUE)>>

\* data[key], undefined when the object has no such key
Get(data, key) == IF key \in DOMAIN data THEN data[key] ELSE Undefined

\* a first refinement that forgets the Villa
bhkRefineApartmentOnly(data) ==
  ~(/\ data.propertyType.t = "string"
    /\ data.propertyType.s = Apartment
    /\ ~Truthy(data.bhk))

\* the first refinement: BHK required only for residential properties
bhkRefine(data) ==
  ~(/\ data.propertyType.t = "string"
    /\ data.propertyType.s \in {Apartment, Villa}
    /\ ~Truthy(data.bhk))

\* the second refinement: budget max >= budget min when both present
budgetRefine(data) ==
  ~(/\ Truthy(data.budgetMin)
    /\ Truthy(data.budgetMax)
    /\ data.budgetMax.n < data.budgetMin.n)

\* an issue that does not continue stops the checks that follow it
aborted(issues) == \E i \in 1..Len(issues) : ~issues[i].continue

\* the object schema of z.object({...}): the issues of the fields in the
\* order of the shape
objectSchema(data) ==
  fullNameSchema(Get(data, "fullName"))
  \o emailSchema(Get(data, "email"))
  \o phoneSchema(Get(data, "phone"))
  \o enumSchema("city", CityEnum, Get(data, "city"))
  \o enumSchema("propertyType", PropertyTypeEnum, Get(data, "propertyType"))
  \o optionalEnumSchema("bhk", BhkEnum, Get(data, "bhk"))
  \o enumSchema("purpose", PurposeEnum, Get(data, "purpose"))
  \o budgetSchema("budgetMin", Get(data, "budgetMin"))
  \o budgetSchema("budgetMax", Get(data, "budgetMax"))
  \o enumSchema("timeline", TimelineEnum, Get(data, "timeline"))
  \o enumSchema("source", SourceEnum, Get(data, "source"))
  \o optionalEnumSchema("status", StatusEnum, Get(data, "status"))
  \o notesSchema(Get(data, "notes"))
  \o tagsSchema(Get(data, "tags"))
  \o attachmentUrlSchema(Get(data, "attachmentUrl"))

\* the value the object schema hands to the refinements and returns on
\* success: the known keys, the budgets coerced, status and tags defaulted
objectOutput(data) ==
  [fullName |-> Get(data, "fullName"),
   email |-> Get(data, "email"),
   phone |-> Get(data, "phone"),
   city |-> Get(data, "city"),
   propertyType |-> Get(data, "propertyType"),
   bhk |-> Get(data, "bhk"),
   purpose |-> Get(data, "purpose"),
   budgetMin |-> coerceNumber(Get(data, "budgetMin")),
   budgetMax |-> coerceNumber(Get(data, "budgetMax")),
   timeline |-> Get(data, "timeline"),
   source |-> Get(data, "source"),
   status |-> IF Get(data, "status").t = "undefined" THEN Str(New) ELSE Get(data, "status"),
   notes |-> Get(data, "notes"),
   tags |-> IF Get(data, "tags").t = "undefined" THEN Arr(<<>>) ELSE Get(data, "tags"),
   attachmentUrl |-> Get(data, "attachmentUrl")]

\* buyerSchema.safeParse(data): the field issues, then the two refinements,
\* each run unless an issue before it stopped the parse
safeParse(given) ==
  Let(given, LAMBDA data :
  Let(objectSchema(data), LAMBDA fields :
  Let(objectOutput(data), LAMBDA out :
  Let(IF ~aborted(fields) /\ ~bhkRefine(out)
      THEN Append(fields,
                  Issue("bhk", "BHK is required for Apartment and Villa properties", TRUE))
      ELSE fields, LAMBDA afterBhk :
  Let(IF ~aborted(afterBhk) /\ ~budgetRefine(out)
      THEN Append(afterBhk,
                  Issue("budgetMax",
                        "Budget maximum must be greater than or equal to minimum", TRUE))
      ELSE afterBhk, LAMBDA afterBudget :
    [success |-> afterBudget = <<>>, issues |-> afterBudget, data |-> out])))))

(***************************************************************************)
(* csv-validator.ts                                                        *)
(***************************************************************************)
\* the object validateCSVRow builds from the strings of a CSV row
processedRow(row) ==
  IF \/ \E key \in DOMAIN row \ {"budgetMin", "budgetMax", "tags"} :
          row[key].t \notin {"undefined", "string"}
     \/ Truthy(row.tags) /\ row.tags.t # "string"
  THEN TypeError
  ELSE
  [fullName |-> OptTrim(row.fullName),
   email |-> Or(OptTrim(row.email), Undefined),
   phone |-> OptTrim(row.phone),
   city |-> OptTrim(row.city),
   propertyType |-> OptTrim(row.propertyType),
   bhk |-> Or(OptTrim(row.bhk), Undefined),
   purpose |-> OptTrim(row.purpose),
   budgetMin |-> IF Truthy(row.budgetMin) THEN parseInt(StringOf(row.budgetMin)) ELSE Undefined,
   budgetMax |-> IF Truthy(row.budgetMax) THEN parseInt(StringOf(row.budgetMax)) ELSE Undefined,
   timeline |-> OptTrim(row.timeline),
   source |-> OptTrim(row.source),
   notes |-> Or(OptTrim(row.notes), Undefined),
   tags |-> IF Truthy(row.tags) THEN Arr(splitTags(row.tags.s)) ELSE Arr(<<>>),
   status |-> Or(OptTrim(row.status), Str(New))]

\* the try block of validateCSVRow: its result, or what it throws
tryValidate(row, rowNumber) ==
  Let(processedRow(row), LAMBDA processed :
    IF IsThrown(processed) THEN processed
    ELSE Let(safeParse(processed), LAMBDA parsed :
           [isValid |-> parsed.success,
            errors |-> [i \in 1..Len(parsed.issues) |->
                          [row |-> rowNumber,
                           field |-> parsed.issues[i].path,
                           message |-> parsed.issues[i].message]]]))

\* a validateCSVRow without the catch block
\* row when validateCSVRow returns: processedRow is a new object built from
\* what row.x?.trim(), parseInt, split, map and filter return, none of which
\* writes to its receiver, and no statement assigns to row or to a cell of it
validateCSVRowHeap(row) == [row |-> row]

validateCSVRowNoCatch(row, rowNumber) == tryValidate(row, rowNumber)

\* a catch block that returns without an error
validateCSVRowSilentCatch(row, rowNumber) ==
  Let(tryValidate(row, rowNumber), LAMBDA attempt :
    IF IsThrown(attempt) THEN [isValid |-> FALSE, errors |-> <<>>] ELSE attempt)

\* the catch block turns what the try block throws into one error on the
\* field "general" (its message ends with the text of the exception)
validateCSVRow(row, rowNumber) ==
  Let(tryValidate(row, rowNumber), LAMBDA attempt :
    IF IsThrown(attempt)
    THEN [isValid |-> FALSE,
          errors |-> <<[row |-> rowNumber,
                        field |-> "general",
                        message |-> "Row parsing failed: TypeError"]>>]
    ELSE attempt)

\* a forEach that keeps the normalized record of a valid row, not the row
RECURSIVE forEachRowNormalized(_, _, _)
forEachRowNormalized(csvData, index, sofar) ==
  Let(sofar, LAMBDA acc :
    IF index >= Len(csvData) THEN acc
    ELSE Let(validateCSVRow(csvData[index + 1], index + 1), LAMBDA validation :
           forEachRowNormalized(csvData, index + 1,
             IF validation.isValid
             THEN [acc EXCEPT !.validRows = Append(@, safeParse(processedRow(csvData[index + 1])).data)]
             ELSE [acc EXCEPT !.invalidRows = Append(@, csvData[index + 1]),
                              !.allErrors = @ \o validation.errors])))

\* a forEach that puts each valid row in front of the earlier ones
RECURSIVE forEachRowUnshift(_, _, _)
forEachRowUnshift(csvData, index, sofar) ==
  Let(sofar, LAMBDA acc :
    IF index >= Len(csvData) THEN acc
    ELSE Let(validateCSVRow(csvData[index + 1], index + 1), LAMBDA validation :
           forEachRowUnshift(csvData, index + 1,
             IF validation.isValid
             THEN [acc EXCEPT !.validRows = <<csvData[index + 1]>> \o @]
             ELSE [acc EXCEPT !.invalidRows = Append(@, csvData[index + 1]),
                              !.allErrors = @ \o validation.errors])))

\* a forEach that numbers the rows from 0
RECURSIVE forEachRowZeroBased(_, _, _)
forEachRowZeroBased(csvData, index, sofar) ==
  Let(sofar, LAMBDA acc :
    IF index >= Len(csvData) THEN acc
    ELSE Let(validateCSVRow(csvData[index + 1], index), LAMBDA validation :
           forEachRowZeroBased(csvData, index + 1,
             IF validation.isValid
             THEN [acc EXCEPT !.validRows = Append(@, csvData[index + 1])]
             ELSE [acc EXCEPT !.invalidRows = Append(@, csvData[index + 1]),
                              !.allErrors = @ \o validation.errors])))

\* a forEach that stops at the first invalid row
RECURSIVE forEachRowAbort(_, _, _)
forEachRowAbort(csvData, index, sofar) ==
  Let(sofar, LAMBDA acc :
    IF index >= Len(csvData) THEN acc
    ELSE Let(validateCSVRow(csvData[index + 1], index + 1), LAMBDA validation :
           IF validation.isValid
           THEN forEachRowAbort(csvData, index + 1,
                  [acc EXCEPT !.validRows = Append(@, csvData[index + 1])])
           ELSE [acc EXCEPT !.invalidRows = Append(@, csvData[index + 1]),
                            !.allErrors = @ \o validation.errors]))

\* the body of csvData.forEach, from the row at `index` (0-based) on
RECURSIVE forEachRow(_, _, _)
forEachRow(csvData, index, sofar) ==
  Let(sofar, LAMBDA acc :
    IF index >= Len(csvData) THEN acc
    ELSE Let(validateCSVRow(csvData[index + 1], index + 1), LAMBDA validation :
           forEachRow(csvData, index + 1,
             IF validation.isValid
             THEN [acc EXCEPT !.validRows = Append(@, csvData[index + 1])]
             ELSE [acc EXCEPT !.invalidRows = Append(@, csvData[index + 1]),
                              !.allErrors = @ \o validation.errors])))

\* a validateCSVData that calls a batch valid only when it accepted a row
validateCSVDataNeedsRows(csvData) ==
  Let(forEachRow(csvData, 0, [allErrors |-> <<>>, validRows |-> <<>>, invalidRows |-> <<>>]),
      LAMBDA acc :
        [isValid |-> Len(acc.allErrors) = 0 /\ Len(acc.validRows) > 0,
         errors |-> acc.allErrors,
         validRows |-> acc.validRows,
         invalidRows |-> acc.invalidRows])

validateCSVData(csvData) ==
  Let(forEachRow(csvData, 0, [allErrors |-> <<>>, validRows |-> <<>>, invalidRows |-> <<>>]),
      LAMBDA acc :
        [isValid |-> Len(acc.allErrors) = 0,
         errors |-> acc.allErrors,
         validRows |-> acc.validRows,
         invalidRows |-> acc.invalidRows])

REQUIRED_CSV_HEADERS ==
  {"fullName", "phone", "city", "propertyType", "purpose", "timeline", "source"}

(***************************************************************************)
(* CSVUtils: the import dialog's parser                                    *)
(***************************************************************************)
\* the budget strings that are not empty become numbers, or undefined when
\* parseInt gives NaN
transformBudget(value) ==
  IF Truthy(value)
  THEN (IF parseInt(value.s).t = "NaN" THEN Undefined ELSE parseInt(value.s))
  ELSE value

\* without the conversion of empty strings
emptyToUndefinedKeep(value) == value

\* value === '' || value === null becomes undefined
emptyToUndefined(value) ==
  IF (value.t = "string" /\ value.s = <<>>) \/ value.t = "null" THEN Undefined ELSE value

\* object[key] = value
put(object, key, value) ==
  [k \in DOMAIN object \cup {key} |-> IF k = key THEN value ELSE object[k]]

\* the callback, were its last statement row[key] = value
keyCallbackInPlace(heap, key) ==
  [heap EXCEPT
     !.row = put(@, key,
       emptyToUndefined(
         CASE key = "tags" ->
                IF Truthy(heap.row[key]) THEN Arr(splitTags(heap.row[key].s))
                ELSE heap.row[key]
           [] key \in {"budgetMin", "budgetMax"} -> transformBudget(heap.row[key])
           [] OTHER -> heap.row[key])),
     !.transformedRow = put(@, key,
       emptyToUndefined(
         CASE key = "tags" ->
                IF Truthy(heap.row[key]) THEN Arr(splitTags(heap.row[key].s))
                ELSE heap.row[key]
           [] key \in {"budgetMin", "budgetMax"} -> transformBudget(heap.row[key])
           [] OTHER -> heap.row[key]))]

\* the callback of Object.keys(row).forEach on the two objects of
\* transformCsvRow: value is a local variable, read from row[key] and
\* reassigned; the one assignment to an object is transformedRow[key] = value
keyCallback(heap, key) ==
  [heap EXCEPT
     !.transformedRow = put(@, key,
       emptyToUndefined(
         CASE key = "tags" ->
                IF Truthy(heap.row[key]) THEN Arr(splitTags(heap.row[key].s))
                ELSE heap.row[key]
           [] key \in {"budgetMin", "budgetMax"} -> transformBudget(heap.row[key])
           [] OTHER -> heap.row[key]))]

RECURSIVE forEachKey(_, _)
forEachKey(heap, keys) ==
  IF keys = {} THEN heap
  ELSE Let(CHOOSE key \in keys : TRUE, LAMBDA key :
         Let(keyCallback(heap, key), LAMBDA next : forEachKey(next, keys \ {key})))

\* row and transformedRow when transformCsvRow returns
transformCsvRowHeap(row) == forEachKey([row |-> row, transformedRow |-> <<>>], DOMAIN row)

transformCsvRow(row) == transformCsvRowHeap(row).transformedRow

\* e.errors?.map(...) || ['Invalid data']: the error buyerSchema.parse
\* throws has issues and no errors property
errorStrings(issues) == <<"Invalid data">>

\* the complete callback, on the rows Papa.parse hands it, from the row at
\* `index` (0-based) on
RECURSIVE forEachParsed(_, _, _)
forEachParsed(data, index, sofar) ==
  Let(sofar, LAMBDA acc :
    IF index >= Len(data) THEN acc
    ELSE Let(safeParse(transformCsvRow(data[index + 1])), LAMBDA parsed :
           forEachParsed(data, index + 1,
             IF parsed.success
             THEN [acc EXCEPT !.validItems = Append(@, parsed.data)]
             ELSE [acc EXCEPT !.invalidItems =
                     Append(@, [row |-> index + 2,
                                errors |-> errorStrings(parsed.issues)])])))

parseAndValidateCSV(data) ==
  forEachParsed(data, 0, [validItems |-> <<>>, invalidItems |-> <<>>])

(***************************************************************************)
(* The rows the functions are called with.  A CSV row maps each of the     *)
(* fourteen headers to a string, or to undefined when the row has no such  *)
(* cell.                                                                   *)
(***************************************************************************)
Rep(c, n) == [i \in 1..n |-> c]

Headers ==
  {"fullName", "email", "phone", "city", "propertyType", "bhk", "purpose",
   "budgetMin", "budgetMax", "timeline", "source", "notes", "tags", "status"}

FullNameSamples ==
  {Undefined,
   Str(<<>>),
   Str(<<"A">>),
   Str(<<" ", "A", " ">>),
   Str(<<"J", "o">>),
   Str(<<" ", " ", "J", "o", " ">>),
   Str(Rep("x", MaxNameLen)),
   Str(Rep("x", MaxNameLen + 1)),
   Str(<<" ">> \o Rep("x", MaxNameLen) \o <<" ">>)}

EmailSamples ==
  {Undefined,
   Str(<<>>),
   Str(<<" ">>),
   Str(<<"j", "o", "h", "n", "@", "e", "x", "a", "m", "p", "l", "e", ".", "c", "o", "m">>),
   Str(<<" ", "j", "o", "h", "n", "@", "e", "x", "a", "m", "p", "l", "e", ".", "c", "o", "m", " ">>),
   Str(<<"n", "o", "t", "-", "a", "n", "-", "e", "m", "a", "i", "l">>),
   Str(<<"a", "@", "b">>),
   Str(<<".", "a", "@", "b", ".", "c", "o">>),
   Str(<<"a", ".", ".", "b", "@", "c", ".", "i", "o">>),
   Str(<<"a", "@", "b", "@", "c", ".", "i", "o">>)}

PhoneSamples ==
  {Undefined,
   Str(<<>>),
   Str(<<"1", "2", "3">>),
   Str(<<"1", "2", "3", "4", "5", "6", "7", "8", "9">>),
   Str(<<"1", "2", "3", "4", "5", "6", "7", "8", "9", "0">>),
   Str(<<"1", "2", "3", "4", "5", "6", "7", "8", "9", "0", "1", "2", "3", "4", "5">>),
   Str(<<"1", "2", "3", "4", "5", "6", "7", "8", "9", "0", "1", "2", "3", "4", "5", "6">>),
   Str(<<"1", "2", "3", "4", "5", "a", "b", "c", "d", "e">>),
   Str(<<" ", "1", "2", "3", "4", "5", "6", "7", "8", "9", "0", " ">>),
   Str(<<"+", "9", "1", "1", "2", "3", "4", "5", "6", "7", "8", "9", "0">>),
   Str(<<"1", "2", "3", "4", "-", "5", "6", "7", "8", "9", "0">>)}

CitySamples ==
  {Undefined,
   Str(<<>>),
   Str(<<"M", "o", "h", "a", "l", "i">>),
   Str(<<" ", "M", "o", "h", "a", "l", "i", " ">>),
   Str(<<"m", "o", "h", "a", "l", "i">>),
   Str(<<"I", "n", "v", "a", "l", "i", "d", "C", "i", "t", "y">>),
   Str(<<"O", "t", "h", "e", "r">>)}

PropertyTypeSamples ==
  {Undefined,
   Str(<<"A", "p", "a", "r", "t", "m", "e", "n", "t">>),
   Str(<<"V", "i", "l", "l", "a">>),
   Str(<<"P", "l", "o", "t">>),
   Str(<<"O", "f", "f", "i", "c", "e">>),
   Str(<<"R", "e", "t", "a", "i", "l">>),
   Str(<<" ", "V", "i", "l", "l", "a", " ">>),
   Str(<<"a", "p", "a", "r", "t", "m", "e", "n", "t">>),
   Str(<<"H", "o", "u", "s", "e">>)}

BhkSamples ==
  {Undefined,
   Str(<<>>),
   Str(<<" ">>),
   Str(<<"1">>),
   Str(<<"2">>),
   Str(<<"S", "t", "u", "d", "i", "o">>),
   Str(<<" ", "3", " ">>),
   Str(<<"5">>),
   Str(<<"s", "t", "u", "d", "i", "o">>)}

PurposeSamples ==
  {Undefined,
   Str(<<"B", "u", "y">>),
   Str(<<"R", "e", "n", "t">>),
   Str(<<" ", "R", "e", "n", "t", " ">>),
   Str(<<"b", "u", "y">>),
   Str(<<"L", "e", "a", "s", "e">>)}

BudgetSamples ==
  {Undefined,
   Str(<<>>),
   Str(<<"0">>),
   Str(<<"5">>),
   Str(<<"1", "0">>),
   Str(<<"-", "5">>),
   Str(<<"a", "b", "c">>),
   Str(<<"1", "2", "a", "b", "c">>),
   Str(<<" ", "7">>),
   Str(<<"1", "0", "0", "0", "0", "0", "0">>),
   Str(<<"2", "0", "0", "0", "0", "0", "0">>)}

TimelineSamples ==
  {Undefined,
   Str(<<"0", "-", "3", "m">>),
   Str(<<">", "6", "m">>),
   Str(<<" ", "3", "-", "6", "m", " ">>),
   Str(<<"6", "m">>),
   Str(<<"e", "x", "p", "l", "o", "r", "i", "n", "g">>)}

SourceSamples ==
  {Undefined,
   Str(<<"W", "e", "b", "s", "i", "t", "e">>),
   Str(<<"W", "a", "l", "k", "-", "i", "n">>),
   Str(<<" ", "C", "a", "l", "l", " ">>),
   Str(<<"W", "a", "l", "k", "i", "n">>),
   Str(<<"c", "a", "l", "l">>)}

NotesSamples ==
  {Undefined,
   Str(<<>>),
   Str(<<" ">>),
   Str(<<"L", "o", "o", "k", "i", "n", "g", " ", "f", "o", "r", " ", "a", " ", "n", "i", "c", "e", " ", "a", "p", "a", "r", "t", "m", "e", "n", "t">>),
   Str(Rep("n", MaxNotesLen)),
   Str(Rep("n", MaxNotesLen + 1)),
   Str(<<" ">> \o Rep("n", MaxNotesLen) \o <<" ">>)}

TagsSamples ==
  {Undefined,
   Str(<<>>),
   Str(<<" ">>),
   Str(<<",">>),
   Str(<<"u", "r", "g", "e", "n", "t", ",", "f", "a", "m", "i", "l", "y">>),
   Str(<<"u", "r", "g", "e", "n", "t", ",", " ", "f", "a", "m", "i", "l", "y", " ", ",", ",">>),
   Str(<<"a", ",", "a">>)}

StatusSamples ==
  {Undefined,
   Str(<<>>),
   Str(<<" ">>),
   Str(<<"N", "e", "w">>),
   Str(<<"Q", "u", "a", "l", "i", "f", "i", "e", "d">>),
   Str(<<"D", "r", "o", "p", "p", "e", "d">>),
   Str(<<" ", "V", "i", "s", "i", "t", "e", "d", " ">>),
   Str(<<"n", "e", "w">>),
   Str(<<"C", "l", "o", "s", "e", "d">>)}

Samples(key) ==
  CASE key = "fullName" -> FullNameSamples
    [] key = "email" -> EmailSamples
    [] key = "phone" -> PhoneSamples
    [] key = "city" -> CitySamples
    [] key = "propertyType" -> PropertyTypeSamples
    [] key = "bhk" -> BhkSamples
    [] key = "purpose" -> PurposeSamples
    [] key \in {"budgetMin", "budgetMax"} -> BudgetSamples
    [] key = "timeline" -> TimelineSamples
    [] key = "source" -> SourceSamples
    [] key = "notes" -> NotesSamples
    [] key = "tags" -> TagsSamples
    [] key = "status" -> StatusSamples

\* a valid row with the required cells only
JohnOffice ==
  [fullName |-> Str(<<"J", "o", "h", "n", " ", "D", "o", "e">>),
   email |-> Undefined,
   phone |-> Str(<<"1", "2", "3", "4", "5", "6", "7", "8", "9", "0">>),
   city |-> Str(<<"C", "h", "a", "n", "d", "i", "g", "a", "r", "h">>),
   propertyType |-> Str(<<"O", "f", "f", "i", "c", "e">>),
   bhk |-> Undefined,
   purpose |-> Str(<<"B", "u", "y">>),
   budgetMin |-> Undefined,
   budgetMax |-> Undefined,
   timeline |-> Str(<<"0", "-", "3", "m">>),
   source |-> Str(<<"W", "e", "b", "s", "i", "t", "e">>),
   notes |-> Undefined,
   tags |-> Undefined,
   status |-> Undefined]

\* a valid row with every cell
JohnApartment ==
  [fullName |-> Str(<<"J", "o", "h", "n", " ", "D", "o", "e">>),
   email |-> Str(<<"j", "o", "h", "n", "@", "e", "x", "a", "m", "p", "l", "e", ".", "c", "o", "m">>),
   phone |-> Str(<<"1", "2", "3", "4", "5", "6", "7", "8", "9", "0">>),
   city |-> Str(<<"C", "h", "a", "n", "d", "i", "g", "a", "r", "h">>),
   propertyType |-> Str(<<"A", "p", "a", "r", "t", "m", "e", "n", "t">>),
   bhk |-> Str(<<"2">>),
   purpose |-> Str(<<"B", "u", "y">>),
   budgetMin |-> Str(<<"1", "0", "0", "0", "0", "0", "0">>),
   budgetMax |-> Str(<<"2", "0", "0", "0", "0", "0", "0">>),
   timeline |-> Str(<<"0", "-", "3", "m">>),
   source |-> Str(<<"W", "e", "b", "s", "i", "t", "e">>),
   notes |-> Str(<<"L", "o", "o", "k", "i", "n", "g", " ", "f", "o", "r", " ", "a", " ", "n", "i", "c", "e", " ", "a", "p", "a", "r", "t", "m", "e", "n", "t">>),
   tags |-> Str(<<"u", "r", "g", "e", "n", "t", ",", "f", "a", "m", "i", "l", "y">>),
   status |-> Str(<<"N", "e", "w">>)]

\* a valid row whose cells carry white space around them
BobVilla ==
  [fullName |-> Str(<<" ", "B", "o", "b", " ", "W", "i", "l", "s", "o", "n", " ">>),
   email |-> Undefined,
   phone |-> Str(<<"9", "8", "7", "6", "5", "4", "3", "2", "1", "0">>),
   city |-> Str(<<"Z", "i", "r", "a", "k", "p", "u", "r">>),
   propertyType |-> Str(<<"V", "i", "l", "l", "a">>),
   bhk |-> Str(<<" ", "3", " ">>),
   purpose |-> Str(<<"B", "u", "y">>),
   budgetMin |-> Undefined,
   budgetMax |-> Undefined,
   timeline |-> Str(<<">", "6", "m">>),
   source |-> Str(<<"W", "a", "l", "k", "-", "i", "n">>),
   notes |-> Undefined,
   tags |-> Str(<<"u", "r", "g", "e", "n", "t", ",", " ", "f", "a", "m", "i", "l", "y", " ", ",", ",">>),
   status |-> Str(<<" ">>)]

\* an invalid row: short phone, no bhk for an Apartment
JaneShortPhone ==
  [fullName |-> Str(<<"J", "a", "n", "e", " ", "S", "m", "i", "t", "h">>),
   email |-> Undefined,
   phone |-> Str(<<"1", "2", "3">>),
   city |-> Str(<<"M", "o", "h", "a", "l", "i">>),
   propertyType |-> Str(<<"A", "p", "a", "r", "t", "m", "e", "n", "t">>),
   bhk |-> Undefined,
   purpose |-> Str(<<"R", "e", "n", "t">>),
   budgetMin |-> Undefined,
   budgetMax |-> Undefined,
   timeline |-> Str(<<"3", "-", "6", "m">>),
   source |-> Str(<<"R", "e", "f", "e", "r", "r", "a", "l">>),
   notes |-> Undefined,
   tags |-> Undefined,
   status |-> Undefined]

\* an invalid row: no phone
NoPhone ==
  [fullName |-> Str(<<"J", "o", "h", "n", " ", "D", "o", "e">>),
   email |-> Undefined,
   phone |-> Undefined,
   city |-> Str(<<"C", "h", "a", "n", "d", "i", "g", "a", "r", "h">>),
   propertyType |-> Str(<<"A", "p", "a", "r", "t", "m", "e", "n", "t">>),
   bhk |-> Str(<<"2">>),
   purpose |-> Str(<<"B", "u", "y">>),
   budgetMin |-> Undefined,
   budgetMax |-> Undefined,
   timeline |-> Str(<<"0", "-", "3", "m">>),
   source |-> Str(<<"W", "e", "b", "s", "i", "t", "e">>),
   notes |-> Undefined,
   tags |-> Undefined,
   status |-> Undefined]

\* a valid row whose email is one character longer than the email column
LongEmail ==
  [JohnOffice EXCEPT !.email = Str(Rep("a", 251) \o <<"@", "b", ".", "c", "o">>)]

(***************************************************************************)
(* The buyers table                                                        *)
(***************************************************************************)
MaxEmailColumn == 255

MaxOwnerColumn == 255

MaxAttachmentColumn == 500

MaxInteger == 2147483647

\* varchar(name, { length }): a longer string is an error
varchar(length, v) == v.t = "string" /\ Len(v.s) <= length

\* a column of a pgEnum type: a value that is not a label is an error
pgEnum(labels, v) == v.t = "string" /\ v.s \in labels

\* a column without notNull(), or with a default, takes a missing value
nullable(v) == v.t \in {"undefined", "null"}

\* what the column `key` of the buyers table takes
column(key, v) ==
  CASE key = "fullName" -> varchar(MaxNameLen, v)
    [] key = "email" -> nullable(v) \/ varchar(MaxEmailColumn, v)
    [] key = "phone" -> varchar(MaxPhoneLen, v)
    [] key = "city" -> pgEnum(CityEnum, v)
    [] key = "propertyType" -> pgEnum(PropertyTypeEnum, v)
    [] key = "bhk" -> nullable(v) \/ pgEnum(BhkEnum, v)
    [] key = "purpose" -> pgEnum(PurposeEnum, v)
    [] key \in {"budgetMin", "budgetMax"} ->
         nullable(v) \/ (v.t = "number" /\ v.n <= MaxInteger)
    [] key = "timeline" -> pgEnum(TimelineEnum, v)
    [] key = "source" -> pgEnum(SourceEnum, v)
    [] key = "status" -> v.t = "undefined" \/ pgEnum(StatusEnum, v)
    [] key = "notes" -> nullable(v) \/ v.t = "string"
    [] key = "tags" -> nullable(v) \/ v.t = "array"
    [] key = "attachmentUrl" -> nullable(v) \/ varchar(MaxAttachmentColumn, v)
    [] key = "ownerId" -> varchar(MaxOwnerColumn, v)

Columns ==
  {"fullName", "email", "phone", "city", "propertyType", "bhk", "purpose", "budgetMin",
   "budgetMax", "timeline", "source", "status", "notes", "tags", "attachmentUrl", "ownerId"}

\* the values of db.insert(buyers).values(...) that the table stores; the
\* statement fails on any other
buyersColumns(values) == \A key \in Columns : column(key, Get(values, key))

\* the values of db.update(buyers).set(...) that the table stores: a key
\* that is undefined is not set
setColumns(values) ==
  \A key \in DOMAIN values \cap Columns :
    values[key].t = "undefined" \/ column(key, values[key])

\* the row stored for the values of an insert: the id the table draws, and
\* NULL or the column's default where the values have nothing
insertedRow(id, values) ==
  [key \in Columns \cup {"id"} |->
     IF key = "id" THEN Num(id)
     ELSE IF Get(values, key).t # "undefined" THEN values[key]
     ELSE IF key = "status" THEN Str(New)
     ELSE IF key = "tags" THEN Arr(<<>>)
     ELSE Null]

\* the row after an update with these values
updatedRow(row, values) ==
  [key \in DOMAIN row |->
     IF key \in DOMAIN values /\ key \in Columns /\ values[key].t # "undefined"
     THEN values[key] ELSE row[key]]

(***************************************************************************)
(* POST /api/buyers/import                                                 *)
(***************************************************************************)
\* the validated record with the owner added (the two timestamps, which
\* the database also sets, are left out)
withOwner(buyerRecord, userId) ==
  [key \in DOMAIN buyerRecord \cup {"ownerId"} |->
     IF key = "ownerId" THEN userId ELSE buyerRecord[key]]

\* the for loop over buyerData, from index i (0-based) on
RECURSIVE forEachRecord(_, _, _, _)
forEachRecord(buyerData, i, userId, sofar) ==
  Let(sofar, LAMBDA acc :
    IF i >= Len(buyerData) THEN acc
    ELSE Let(safeParse(buyerData[i + 1]), LAMBDA parsed :
           forEachRecord(buyerData, i + 1, userId,
             IF parsed.success
             THEN [acc EXCEPT !.validatedBuyers = Append(@, withOwner(parsed.data, userId))]
             ELSE [acc EXCEPT !.errors =
                     Append(@, [record |-> i + 1,
                                messages |-> errorStrings(parsed.issues)])])))

\* the response and the rows inserted; `userId` is undefined when nobody
\* is signed in; the one insert statement stores all its rows or, when the
\* table cannot store one of them, fails and the handler answers 500
importPOST(userId, buyerData) ==
  Let([status |-> 0, imported |-> 0, total |-> 0, skipped |-> 0,
       errors |-> <<>>, inserted |-> <<>>], LAMBDA none :
    IF ~Truthy(userId) THEN [none EXCEPT !.status = 401]
    ELSE IF Len(buyerData) = 0 THEN [none EXCEPT !.status = 400]
    ELSE Let(forEachRecord(buyerData, 0, userId, [validatedBuyers |-> <<>>, errors |-> <<>>]),
             LAMBDA acc :
               IF Len(acc.validatedBuyers) = 0
               THEN [none EXCEPT !.status = 400, !.errors = acc.errors]
               ELSE IF \E k \in 1..Len(acc.validatedBuyers) :
                         ~buyersColumns(acc.validatedBuyers[k])
               THEN [none EXCEPT !.status = 500]
               ELSE [status |-> 200,
                     imported |-> Len(acc.validatedBuyers),
                     total |-> Len(buyerData),
                     skipped |-> Len(buyerData) - Len(acc.validatedBuyers),
                     errors |-> acc.errors,
                     inserted |-> acc.validatedBuyers]))

(***************************************************************************)
(* GET /api/buyers: the pagination                                         *)
(***************************************************************************)
HexDigit == Digit \cup {"a", "b", "c", "d", "e", "f", "A", "B", "C", "D", "E", "F"}

HexDigitValue(c) ==
  CASE c \in Digit -> DigitValue(c)
    [] c \in {"a", "A"} -> 10 [] c \in {"b", "B"} -> 11 [] c \in {"c", "C"} -> 12
    [] c \in {"d", "D"} -> 13 [] c \in {"e", "E"} -> 14 [] c \in {"f", "F"} -> 15

RECURSIVE HexDigitsValue(_)
HexDigitsValue(ds) ==
  IF ds = <<>> THEN 0
  ELSE 16 * HexDigitsValue(SubSeq(ds, 1, Len(ds) - 1)) + HexDigitValue(ds[Len(ds)])

\* parseInt(s) with no radix: as parseInt(s, 10), but after the white space
\* and the sign a prefix 0x or 0X makes the digits hexadecimal
parseIntNoRadix(s) ==
  LET lead == IF \A i \in 1..Len(s) : s[i] \in WhiteSpace THEN Len(s)
              ELSE (CHOOSE i \in 1..Len(s) :
                      s[i] \notin WhiteSpace /\ \A j \in 1..(i - 1) : s[j] \in WhiteSpace) - 1
      t == SubSeq(s, lead + 1, Len(s))
      signed == t # <<>> /\ t[1] \in {"+", "-"}
      body == IF signed THEN Tail(t) ELSE t
      hex == Len(body) >= 2 /\ body[1] = "0" /\ body[2] \in {"x", "X"}
      digits == SubSeq(body, 3, Len(body))
      k == IF \A i \in 1..Len(digits) : digits[i] \in HexDigit THEN Len(digits)
           ELSE (CHOOSE i \in 1..Len(digits) :
                   digits[i] \notin HexDigit /\ \A j \in 1..(i - 1) : digits[j] \in HexDigit) - 1
      magnitude == HexDigitsValue(SubSeq(digits, 1, k))
  IN IF ~hex THEN parseInt(s)
     ELSE IF k = 0 THEN NaN
     ELSE IF t[1] = "-" THEN Num(0 - magnitude) ELSE Num(magnitude)

\* Math.max and Math.min of two arguments: NaN when one of them is NaN
MathMax(x, y) ==
  IF x.t = "NaN" \/ y.t = "NaN" THEN NaN ELSE IF x.n >= y.n THEN x ELSE y

MathMin(x, y) ==
  IF x.t = "NaN" \/ y.t = "NaN" THEN NaN ELSE IF x.n <= y.n THEN x ELSE y

\* Math.ceil(x / y) for x >= 0 and y > 0
MathCeilOfQuotient(x, y) ==
  IF x.t = "NaN" \/ y.t = "NaN" THEN NaN ELSE Num((x.n + y.n - 1) \div y.n)

\* the * and - of JavaScript on numbers and NaN
Times(x, y) == IF x.t = "NaN" \/ y.t = "NaN" THEN NaN ELSE Num(x.n * y.n)

Minus(x, y) == IF x.t = "NaN" \/ y.t = "NaN" THEN NaN ELSE Num(x.n - y.n)

\* x < y and x > y: false when one of them is NaN
LessThan(x, y) == x.t = "number" /\ y.t = "number" /\ x.n < y.n

DefaultPage == 1

DefaultLimit == 10

MaxLimit == 50

\* Math.max(1, parseInt(url.searchParams.get('page') || '1'))
pageOf(param) ==
  MathMax(Num(1), parseIntNoRadix(Or(param, Str(NumberToString(DefaultPage))).s))

\* Math.min(50, Math.max(1, parseInt(url.searchParams.get('limit') || '10')))
limitOf(param) ==
  MathMin(Num(MaxLimit),
          MathMax(Num(1), parseIntNoRadix(Or(param, Str(NumberToString(DefaultLimit))).s)))

\* the response of GET for the two query parameters (null when absent) and
\* the count the database returns; `accepted` tells whether the database
\* runs a query whose limit or offset is NaN: when it does not, the handler
\* answers 500
buyersGET(userId, pageParam, limitParam, totalCount, accepted) ==
  Let([status |-> 0, page |-> Undefined, limit |-> Undefined, offset |-> Undefined,
       totalPages |-> Undefined, hasNextPage |-> FALSE, hasPreviousPage |-> FALSE],
      LAMBDA none :
    IF ~Truthy(userId) THEN [none EXCEPT !.status = 401]
    ELSE Let(pageOf(pageParam), LAMBDA page :
         Let(limitOf(limitParam), LAMBDA limit :
         Let(Times(Minus(page, Num(1)), limit), LAMBDA offset :
         Let(MathCeilOfQuotient(Num(totalCount), limit), LAMBDA totalPages :
           [status |-> IF (limit.t = "NaN" \/ offset.t = "NaN") /\ ~accepted
                       THEN 500 ELSE 200,
            page |-> page,
            limit |-> limit,
            offset |-> offset,
            totalPages |-> totalPages,
            hasNextPage |-> LessThan(page, totalPages),
            hasPreviousPage |-> LessThan(Num(1), page)])))))

(***************************************************************************)
(* InMemoryRateLimiter                                                     *)
(***************************************************************************)
\* the length of the window, in ticks of the clock
WindowMs == 2

\* the constructor (the interval timer it starts is the action Cleanup)
InMemoryRateLimiter(windowMs, maxRequests) ==
  [store |-> {}, windowMs |-> windowMs, maxRequests |-> maxRequests]

\* store.has(key), store.get(key), store.set(key, entry), store.delete(key)
has(store, key) == \E e \in store : e.key = key

get(store, key) == CHOOSE e \in store : e.key = key

set(store, key, count, resetTime) ==
  {e \in store : e.key # key} \cup {[key |-> key, count |-> count, resetTime |-> resetTime]}

delete(store, key) == {e \in store : e.key # key}

\* an isAllowed that rejects one call later
isAllowedOffByOne(this, identifier, now) ==
  IF ~has(this.store, identifier) \/ now > get(this.store, identifier).resetTime
  THEN [this |-> [this EXCEPT !.store = set(@, identifier, 1, now + this.windowMs)],
        result |-> [allowed |-> TRUE,
                    resetTime |-> now + this.windowMs,
                    remaining |-> this.maxRequests - 1]]
  ELSE Let(get(this.store, identifier), LAMBDA entry :
         IF entry.count > this.maxRequests
         THEN [this |-> this,
               result |-> [allowed |-> FALSE, resetTime |-> entry.resetTime, remaining |-> 0]]
         ELSE [this |-> [this EXCEPT !.store = set(@, identifier, entry.count + 1,
                                                   entry.resetTime)],
               result |-> [allowed |-> TRUE,
                           resetTime |-> entry.resetTime,
                           remaining |-> this.maxRequests - (entry.count + 1)]])

\* an isAllowed whose new window starts where the old one ended
isAllowedFromOldReset(this, identifier, now) ==
  IF ~has(this.store, identifier)
  THEN [this |-> [this EXCEPT !.store = set(@, identifier, 1, now + this.windowMs)],
        result |-> [allowed |-> TRUE,
                    resetTime |-> now + this.windowMs,
                    remaining |-> this.maxRequests - 1]]
  ELSE Let(get(this.store, identifier), LAMBDA entry :
         IF now > entry.resetTime
         THEN [this |-> [this EXCEPT !.store = set(@, identifier, 1,
                                                   entry.resetTime + this.windowMs)],
               result |-> [allowed |-> TRUE,
                           resetTime |-> entry.resetTime + this.windowMs,
                           remaining |-> this.maxRequests - 1]]
         ELSE IF entry.count >= this.maxRequests
         THEN [this |-> this,
               result |-> [allowed |-> FALSE, resetTime |-> entry.resetTime, remaining |-> 0]]
         ELSE [this |-> [this EXCEPT !.store = set(@, identifier, entry.count + 1,
                                                   entry.resetTime)],
               result |-> [allowed |-> TRUE,
                           resetTime |-> entry.resetTime,
                           remaining |-> this.maxRequests - (entry.count + 1)]])

\* an isAllowed that keeps one entry for all identifiers
isAllowedOneEntry(this, identifier, now) ==
  IF ~has(this.store, "") \/ now > get(this.store, "").resetTime
  THEN [this |-> [this EXCEPT !.store = set(@, "", 1, now + this.windowMs)],
        result |-> [allowed |-> TRUE,
                    resetTime |-> now + this.windowMs,
                    remaining |-> this.maxRequests - 1]]
  ELSE Let(get(this.store, ""), LAMBDA entry :
         IF entry.count >= this.maxRequests
         THEN [this |-> this,
               result |-> [allowed |-> FALSE, resetTime |-> entry.resetTime, remaining |-> 0]]
         ELSE [this |-> [this EXCEPT !.store = set(@, "", entry.count + 1, entry.resetTime)],
               result |-> [allowed |-> TRUE,
                           resetTime |-> entry.resetTime,
                           remaining |-> this.maxRequests - (entry.count + 1)]])

\* limiter.isAllowed(identifier) when Date.now() is `now`: the limiter
\* after the call and what the promise resolves to (the method has no await:
\* it runs to its end without another call in between)
\* an isAllowed that opens a window with count 0
isAllowedCountFromZero(this, identifier, now) ==
  IF ~has(this.store, identifier) \/ now > get(this.store, identifier).resetTime
  THEN [this |-> [this EXCEPT !.store = set(@, identifier, 0, now + this.windowMs)],
        result |-> [allowed |-> TRUE,
                    resetTime |-> now + this.windowMs,
                    remaining |-> this.maxRequests - 1]]
  ELSE Let(get(this.store, identifier), LAMBDA entry :
         IF entry.count >= this.maxRequests
         THEN [this |-> this,
               result |-> [allowed |-> FALSE, resetTime |-> entry.resetTime, remaining |-> 0]]
         ELSE [this |-> [this EXCEPT !.store = set(@, identifier, entry.count + 1,
                                                   entry.resetTime)],
               result |-> [allowed |-> TRUE,
                           resetTime |-> entry.resetTime,
                           remaining |-> this.maxRequests - (entry.count + 1)]])

\* isAllowed at time `now` (Date.now()); the method has no await, so a call
\* runs from its first statement to its return with no other call between
isAllowed(this, identifier, now) ==
  IF ~has(this.store, identifier) \/ now > get(this.store, identifier).resetTime
  THEN [this |-> [this EXCEPT !.store = set(@, identifier, 1, now + this.windowMs)],
        result |-> [allowed |-> TRUE,
                    resetTime |-> now + this.windowMs,
                    remaining |-> this.maxRequests - 1]]
  ELSE Let(get(this.store, identifier), LAMBDA entry :
         IF entry.count >= this.maxRequests
         THEN [this |-> this,
               result |-> [allowed |-> FALSE, resetTime |-> entry.resetTime, remaining |-> 0]]
         ELSE [this |-> [this EXCEPT !.store = set(@, identifier, entry.count + 1,
                                                   entry.resetTime)],
               result |-> [allowed |-> TRUE,
                           resetTime |-> entry.resetTime,
                           remaining |-> this.maxRequests - (entry.count + 1)]])

\* a cleanup that also deletes the entries whose window ends now
cleanupAtReset(this, now) ==
  [this EXCEPT !.store = {e \in @ : ~(now >= e.resetTime)}]

\* the timer's callback: the expired entries are deleted
cleanup(this, now) ==
  [this EXCEPT !.store = {e \in @ : ~(now > e.resetTime)}]

(***************************************************************************)
(* POST /api/buyers, PUT and DELETE /api/buyers/[id]                       *)
(***************************************************************************)
\* new InMemoryRateLimiter(60000, 5) and new InMemoryRateLimiter(60000, 10)
CreatesPerWindow == 5

UpdatesPerWindow == 10

\* the users whose e-mail address is ADMIN_EMAIL
AdminIds == {Str(<<"u", "2">>)}

\* isUserAdmin(), for the signed-in user
isUserAdmin(userId) == userId \in AdminIds

\* getRateLimitIdentifier(userId, ip) for a signed-in user
getRateLimitIdentifier(userId) == userId.s

\* what a handler returns: the response's status, the values it handed to
\* an insert or update of the buyers table, and the tables and the limiter
\* as it leaves them
Response(status, handed, table, records, limiterAfter) ==
  [status |-> status, handed |-> handed, buyers |-> table, buyerHistory |-> records,
   limiter |-> limiterAfter]

\* POST /api/buyers with the ids issued so far
buyersPOST(userId, body, table, records, this, now, issued) ==
  IF ~Truthy(userId) THEN Response(401, <<>>, table, records, this)
  ELSE Let(isAllowed(this, getRateLimitIdentifier(userId), now), LAMBDA rateLimit :
    IF ~rateLimit.result.allowed THEN Response(429, <<>>, table, records, rateLimit.this)
    ELSE Let(safeParse(body), LAMBDA parsed :
      \* buyerSchema.parse throws, and the catch of the handler answers
      IF ~parsed.success THEN Response(500, <<>>, table, records, rateLimit.this)
      ELSE Let(withOwner(parsed.data, userId), LAMBDA buyerData :
        IF ~buyersColumns(buyerData)
        THEN Response(500, <<buyerData>>, table, records, rateLimit.this)
        ELSE Response(201, <<buyerData>>,
                      Append(table, insertedRow(issued + 1, buyerData)),
                      records, rateLimit.this))))

\* db.select().from(buyers).where(...): the rows with the id, for a user
\* who is not an admin only those the user owns
selectExistingAnyOwner(table, buyerId, userId) ==
  SelectSeq(table, LAMBDA row : row.id = Num(buyerId))

selectExisting(table, buyerId, userId) ==
  SelectSeq(table, LAMBDA row :
    /\ row.id = Num(buyerId)
    /\ isUserAdmin(userId) \/ row.ownerId = userId)

\* { ...existingBuyer, ...body }
merge(existingBuyer, body) ==
  [key \in DOMAIN existingBuyer \cup DOMAIN body |->
     IF key \in DOMAIN body THEN body[key] ELSE existingBuyer[key]]

excludeFields == {"id", "createdAt", "updatedAt", "ownerId"}

\* JSON.stringify([...a].sort()) !== JSON.stringify([...b].sort())
sortedDiffer(a, b) ==
  \/ Len(a) # Len(b)
  \/ \E x \in {a[i] : i \in 1..Len(a)} \cup {b[i] : i \in 1..Len(b)} :
       Cardinality({i \in 1..Len(a) : a[i] = x}) # Cardinality({i \in 1..Len(b) : b[i] = x})

\* the keys of calculateDiff(oldBuyer, newBuyer)
calculateDiff(oldBuyer, newBuyer) ==
  {key \in DOMAIN newBuyer \ excludeFields :
     IF Get(oldBuyer, key).t = "array" /\ newBuyer[key].t = "array"
     THEN sortedDiffer(Get(oldBuyer, key).a, newBuyer[key].a)
     ELSE Get(oldBuyer, key) # newBuyer[key]}

\* the history records of the changes, one for each changed field
historyRecords(buyerId, userId, changes, oldBuyer, newBuyer) ==
  LET RECURSIVE records(_)
      records(keys) ==
        IF keys = {} THEN <<>>
        ELSE LET field == CHOOSE key \in keys : TRUE
             IN <<[buyerId |-> Num(buyerId), changedBy |-> userId, field |-> field,
                   old |-> Get(oldBuyer, field), new |-> newBuyer[field]]>>
                \o records(keys \ {field})
  IN records(changes)

\* PUT /api/buyers/[id]
buyerPUT(userId, buyerId, body, table, records, this, now) ==
  IF ~Truthy(userId) THEN Response(401, <<>>, table, records, this)
  ELSE Let(isAllowed(this, getRateLimitIdentifier(userId), now), LAMBDA rateLimit :
    IF ~rateLimit.result.allowed THEN Response(429, <<>>, table, records, rateLimit.this)
    ELSE Let(selectExisting(table, buyerId, userId), LAMBDA found :
      IF found = <<>> THEN Response(404, <<>>, table, records, rateLimit.this)
      ELSE IF DOMAIN body = {"status"} /\ Truthy(body.status)
      THEN \* the simple update: body.status goes to the table as it is
           Let([status |-> body.status], LAMBDA values :
             IF ~setColumns(values)
             THEN Response(500, <<values>>, table, records, rateLimit.this)
             ELSE Response(200, <<values>>,
                           [i \in 1..Len(table) |->
                              IF table[i].id = Num(buyerId)
                              THEN updatedRow(table[i], values) ELSE table[i]],
                           records, rateLimit.this))
      ELSE Let(found[1], LAMBDA existingBuyer :
           Let(merge(existingBuyer, body), LAMBDA mergedData :
           Let(safeParse(mergedData), LAMBDA parsed :
             IF ~parsed.success THEN Response(400, <<>>, table, records, rateLimit.this)
             ELSE Let(calculateDiff(existingBuyer, mergedData), LAMBDA changes :
               IF changes = {} THEN Response(200, <<>>, table, records, rateLimit.this)
               ELSE IF ~setColumns(parsed.data)
               THEN Response(500, <<parsed.data>>, table, records, rateLimit.this)
               ELSE Response(200, <<parsed.data>>,
                             [i \in 1..Len(table) |->
                                IF table[i].id = Num(buyerId)
                                THEN updatedRow(table[i], parsed.data) ELSE table[i]],
                             records \o historyRecords(buyerId, userId, changes,
                                                       existingBuyer, mergedData),
                             rateLimit.this)))))))

\* DELETE /api/buyers/[id]; the history records of the buyer go with it
\* (onDelete: 'cascade')
buyerDELETE(userId, buyerId, table, records, this) ==
  IF ~Truthy(userId) THEN Response(401, <<>>, table, records, this)
  ELSE IF selectExisting(table, buyerId, userId) = <<>>
  THEN Response(404, <<>>, table, records, this)
  ELSE Response(200, <<>>,
                SelectSeq(table, LAMBDA row : row.id # Num(buyerId)),
                SelectSeq(records, LAMBDA record : record.buyerId # Num(buyerId)),
                this)

(***************************************************************************)
(* The calls                                                               *)
(***************************************************************************)
MaxRowNumber == 2

\* the buyers ever stored
MaxBuyers == 1

MaxBatch == 3

MaxCalls == 2

MaxHistoryBatch == 2

MaxTagsLen == 4

BaseRows == {JohnOffice, JohnApartment}

\* a base row with one cell replaced
OneCell ==
  UNION {UNION {{[b EXCEPT ![key] = v] : v \in Samples(key)} : key \in Headers} :
         b \in BaseRows}

\* a base row with two cells replaced
TwoCells(key1, key2) ==
  {[b EXCEPT ![key1] = v1, ![key2] = v2] :
     b \in BaseRows, v1 \in Samples(key1), v2 \in Samples(key2)}

\* the cells of the test "should handle multiple errors in one row", and a
\* budgetMax below the budgetMin of the row
Violation(key) ==
  CASE key = "fullName" -> Str(<<"A">>)
    [] key = "phone" -> Str(<<"1", "2", "3">>)
    [] key = "city" -> Str(<<"I", "n", "v", "a", "l", "i", "d", "C", "i", "t", "y">>)
    [] key = "bhk" -> Undefined
    [] key = "budgetMax" -> Str(<<"5">>)

\* the valid apartment row with any number of these cells in it
SeveralViolations ==
  {[key \in Headers |-> IF key \in broken THEN Violation(key) ELSE JohnApartment[key]] :
     broken \in SUBSET {"fullName", "phone", "city", "bhk", "budgetMax"}}

\* a row with a number where the CSVRow type has a string
NumberName == [JohnOffice EXCEPT !.fullName = Num(5)]

WronglyTyped ==
  {NumberName,
   [JohnOffice EXCEPT !.tags = Num(7)],
   [JohnOffice EXCEPT !.tags = Num(0)],
   [JohnOffice EXCEPT !.budgetMin = Num(5)],
   [JohnOffice EXCEPT !.budgetMin = Num(0)]}

\* the tags cells of at most MaxTagsLen characters
TagsStrings == UNION {[1..n -> {"a", "b", ",", " "}] : n \in 0..MaxTagsLen}

\* the valid row with each of these tags cells
TaggedRows == {[JohnOffice EXCEPT !.tags = Str(s)] : s \in TagsStrings}

\* the cells a row may leave out
OptionalFields == {"email", "bhk", "budgetMin", "budgetMax", "notes", "tags", "status"}

\* a base row with any number of its optional cells empty, as a CSV file
\* with nothing between two commas gives them
EmptyOptionals ==
  {[key \in Headers |-> IF key \in empty THEN Str(<<>>) ELSE b[key]] :
     b \in BaseRows, empty \in SUBSET OptionalFields}

\* rows of strings, as a CSV parser gives them
CsvRows ==
  OneCell \cup TwoCells("propertyType", "bhk") \cup TwoCells("budgetMin", "budgetMax")
  \cup SeveralViolations \cup TaggedRows \cup EmptyOptionals
  \cup {BobVilla, JaneShortPhone, NoPhone}

Rows == CsvRows \cup WronglyTyped

BatchRows == {JohnOffice, JohnApartment, BobVilla, JaneShortPhone, NoPhone}

Batches == UNION {[1..n -> BatchRows] : n \in 0..MaxBatch}

\* the files parseAndValidateCSV is called with: the batches, and every row
\* as a file of one row
ParsedBatches == Batches \cup {<<row>> : row \in CsvRows}

\* the batches validateCSVData is called with
CsvBatches == UNION {[1..n -> BatchRows \cup {NumberName}] : n \in 0..MaxBatch}

\* the batches posted to the import handler
ImportBatches == UNION {[1..n -> BatchRows \cup {LongEmail}] : n \in 0..MaxBatch}

MaxTotalCount == 3

\* values of a query parameter: absent, empty, not a number, zero,
\* negative, small, with a suffix, hexadecimal, at and above the largest
\* limit, and very large
QueryValues ==
  {Null,
   Str(<<>>),
   Str(<<"a", "b", "c">>),
   Str(<<"0">>),
   Str(<<"-", "3">>),
   Str(<<"1">>),
   Str(<<"2">>),
   Str(<<"3">>),
   Str(<<"2", "a", "b", "c">>),
   Str(<<"0", "x", "1", "0">>),
   Str(<<"5", "0">>),
   Str(<<"5", "1">>),
   Str(<<"1", "0", "0", "0", "0", "0", "0">>)}

HistoryRows == {JohnOffice, BobVilla, JaneShortPhone}

HistoryBatches == UNION {[1..n -> HistoryRows] : n \in 0..MaxHistoryBatch}

UserIds == {Undefined, Str(<<"u", "1">>), Str(<<"u", "2">>)}

\* before any call; the limiter as new InMemoryRateLimiter(WindowMs, 1)
\* leaves it
Init ==
  /\ fn = "none"
  /\ input = <<>>
  /\ returned = <<>>
  /\ rowsAfter = <<>>
  /\ buyers = <<>>
  /\ buyerHistory = <<>>
  /\ lastId = 0
  /\ createBuyerLimiter = InMemoryRateLimiter(WindowMs, CreatesPerWindow)
  /\ updateBuyerLimiter = InMemoryRateLimiter(WindowMs, UpdatesPerWindow)
  /\ history = <<>>
  /\ limiter = InMemoryRateLimiter(WindowMs, 1)
  /\ clock = 0
  /\ calls = <<>>

ValidateCSVRow ==
  /\ fn = "none"
  /\ \E row \in Rows, rowNumber \in 1..MaxRowNumber :
       /\ fn' = "validateCSVRow"
       /\ input' = [row |-> row, rowNumber |-> rowNumber]
       /\ returned' = validateCSVRow(row, rowNumber)
       /\ rowsAfter' = <<validateCSVRowHeap(row).row>>
  /\ UNCHANGED <<buyers, buyerHistory, history>>
  /\ UNCHANGED serverVars
  /\ UNCHANGED limiterVars

ValidateCSVData ==
  /\ fn = "none"
  /\ \E csvData \in CsvBatches :
       /\ fn' = "validateCSVData"
       /\ input' = [csvData |-> csvData]
       /\ returned' = validateCSVData(csvData)
       /\ rowsAfter' = [i \in 1..Len(csvData) |-> validateCSVRowHeap(csvData[i]).row]
  /\ UNCHANGED <<buyers, buyerHistory, history>>
  /\ UNCHANGED serverVars
  /\ UNCHANGED limiterVars

ParseAndValidateCSV ==
  /\ fn = "none"
  /\ \E data \in ParsedBatches :
       /\ fn' = "parseAndValidateCSV"
       /\ input' = [data |-> data]
       /\ returned' = parseAndValidateCSV(data)
       /\ rowsAfter' = [i \in 1..Len(data) |-> transformCsvRowHeap(data[i]).row]
  /\ UNCHANGED <<buyers, buyerHistory, history>>
  /\ UNCHANGED serverVars
  /\ UNCHANGED limiterVars

\* the client posts the rows it transformed, valid or not
ImportPOST ==
  /\ fn = "none"
  /\ \E userId \in UserIds, data \in ImportBatches :
       \E buyerData \in {[i \in 1..Len(data) |-> transformCsvRow(data[i])]} :
         \E response \in {importPOST(userId, buyerData)} :
           /\ fn' = "importPOST"
           /\ input' = [userId |-> userId, buyerData |-> buyerData]
           /\ returned' = response
           /\ buyers' = buyers \o [k \in 1..Len(response.inserted) |->
                                     insertedRow(lastId + k, response.inserted[k])]
           /\ lastId' = lastId + Len(response.inserted)
  /\ UNCHANGED <<rowsAfter, buyerHistory, history, createBuyerLimiter, updateBuyerLimiter>>
  /\ UNCHANGED limiterVars

\* a request for a page of the list, the table holding totalCount buyers
\* that match its filters
BuyersGET ==
  /\ fn = "none"
  /\ \E userId \in UserIds, pageParam \in QueryValues, limitParam \in QueryValues,
        totalCount \in 0..MaxTotalCount, accepted \in BOOLEAN :
       /\ fn' = "buyersGET"
       /\ input' = [userId |-> userId, page |-> pageParam, limit |-> limitParam,
                    totalCount |-> totalCount]
       /\ returned' = buyersGET(userId, pageParam, limitParam, totalCount, accepted)
  /\ UNCHANGED <<rowsAfter, buyers, buyerHistory, history>>
  /\ UNCHANGED serverVars
  /\ UNCHANGED limiterVars

Next ==
  ValidateCSVRow \/ ValidateCSVData \/ ParseAndValidateCSV \/ ImportPOST \/ BuyersGET

Spec == Init /\ [][Next]_vars

\* one process reconciling one batch after another
ReconcileAgain ==
  /\ Len(history) < MaxCalls
  /\ \E csvData \in HistoryBatches :
       history' = Append(history, [csvData |-> csvData, result |-> validateCSVData(csvData)])
  /\ UNCHANGED <<fn, input, returned, rowsAfter, buyers, buyerHistory>>
  /\ UNCHANGED serverVars
  /\ UNCHANGED limiterVars

NextHistory == ReconcileAgain

SpecHistory == Init /\ [][NextHistory]_vars

(***************************************************************************)
(* The requests on the buyers table                                        *)
(***************************************************************************)
\* the body the form sends with every field filled in
ApartmentForm ==
  [key \in Headers \cup {"attachmentUrl"} |->
     IF key = "attachmentUrl" THEN Str(<<>>) ELSE transformCsvRow(JohnApartment)[key]]

\* bodies of POST: the full form, the required fields only, and a body
\* without a phone
CreateBodies == {ApartmentForm, transformCsvRow(JohnOffice), transformCsvRow(NoPhone)}

\* bodies of the import
RequestBatches ==
  {<<transformCsvRow(JohnOffice), transformCsvRow(NoPhone)>>,
   <<transformCsvRow(NoPhone)>>}

\* bodies of PUT: a status alone (a label of the enum, another string),
\* one field of the form, a budgetMax below the budgetMin of the form, and
\* a status with another field
UpdateBodies ==
  {[status |-> Str(<<"V", "i", "s", "i", "t", "e", "d">>)],
   [status |-> Str(<<"B", "o", "g", "u", "s">>)],
   [city |-> Str(<<"M", "o", "h", "a", "l", "i">>)],
   [budgetMax |-> Num(5)],
   [status |-> Str(<<"D", "r", "o", "p", "p", "e", "d">>), bhk |-> Str(<<"3">>)]}

\* the stores of a limiter in whose open window every signed-in user has
\* one request left or none
NearLimit(maxRequests) ==
  {{[key |-> getRateLimitIdentifier(userId), count |-> used[userId],
     resetTime |-> WindowMs] : userId \in UserIds \ {Undefined}} :
     used \in [UserIds \ {Undefined} -> {maxRequests - 1, maxRequests}]}

\* no buyer is stored yet; the users have made requests in the open window
\* of each limiter, none of which stored anything (a POST with a body that
\* fails validation, a PUT on a buyer that does not exist)
InitBuyers ==
  /\ fn = "none"
  /\ input = <<>>
  /\ returned = <<>>
  /\ rowsAfter = <<>>
  /\ buyers = <<>>
  /\ buyerHistory = <<>>
  /\ lastId = 0
  /\ createBuyerLimiter \in
       {[InMemoryRateLimiter(WindowMs, CreatesPerWindow) EXCEPT !.store = store] :
          store \in NearLimit(CreatesPerWindow)}
  /\ updateBuyerLimiter \in
       {[InMemoryRateLimiter(WindowMs, UpdatesPerWindow) EXCEPT !.store = store] :
          store \in NearLimit(UpdatesPerWindow)}
  /\ history = <<>>
  /\ limiter = InMemoryRateLimiter(WindowMs, 1)
  /\ clock = 0
  /\ calls = <<>>

\* what the state keeps of a response
Answer(response) == [status |-> response.status, handed |-> response.handed]

BuyersPOST ==
  /\ lastId < MaxBuyers
  /\ \E userId \in UserIds, body \in CreateBodies :
       \E response \in {buyersPOST(userId, body, buyers, buyerHistory, createBuyerLimiter,
                                    clock, lastId)} :
         /\ fn' = "buyersPOST"
         /\ input' = [userId |-> userId, body |-> body]
         /\ returned' = Answer(response)
         /\ buyers' = response.buyers
         /\ lastId' = lastId + (Len(response.buyers) - Len(buyers))
         /\ createBuyerLimiter' = response.limiter
  /\ UNCHANGED <<rowsAfter, buyerHistory, updateBuyerLimiter, history>>
  /\ UNCHANGED limiterVars

BuyersImport ==
  /\ \E userId \in UserIds, buyerData \in RequestBatches :
       \E response \in {importPOST(userId, buyerData)} :
            /\ lastId + Len(response.inserted) <= MaxBuyers
            /\ fn' = "importPOST"
            /\ input' = [userId |-> userId, buyerData |-> buyerData]
            /\ returned' = [status |-> response.status, handed |-> response.inserted]
            /\ buyers' = buyers \o [k \in 1..Len(response.inserted) |->
                                      insertedRow(lastId + k, response.inserted[k])]
            /\ lastId' = lastId + Len(response.inserted)
  /\ UNCHANGED <<rowsAfter, buyerHistory, createBuyerLimiter, updateBuyerLimiter, history>>
  /\ UNCHANGED limiterVars

BuyerPUT ==
  /\ \E userId \in UserIds, buyerId \in 1..MaxBuyers, body \in UpdateBodies :
       \E response \in {buyerPUT(userId, buyerId, body, buyers, buyerHistory,
                                  updateBuyerLimiter, clock)} :
         /\ fn' = "buyerPUT"
         /\ input' = [userId |-> userId, id |-> buyerId, body |-> body]
         /\ returned' = Answer(response)
         /\ buyers' = response.buyers
         /\ buyerHistory' = response.buyerHistory
         /\ updateBuyerLimiter' = response.limiter
  /\ UNCHANGED <<rowsAfter, lastId, createBuyerLimiter, history>>
  /\ UNCHANGED limiterVars

BuyerDELETE ==
  /\ \E userId \in UserIds, buyerId \in 1..MaxBuyers :
       \E response \in {buyerDELETE(userId, buyerId, buyers, buyerHistory,
                                     updateBuyerLimiter)} :
         /\ fn' = "buyerDELETE"
         /\ input' = [userId |-> userId, id |-> buyerId]
         /\ returned' = Answer(response)
         /\ buyers' = response.buyers
         /\ buyerHistory' = response.buyerHistory
  /\ UNCHANGED <<rowsAfter, lastId, createBuyerLimiter, updateBuyerLimiter, history>>
  /\ UNCHANGED limiterVars

NextBuyers == BuyersPOST \/ BuyersImport \/ BuyerPUT \/ BuyerDELETE

\* the requests made within one window of the limiters
SpecBuyers == InitBuyers /\ [][NextBuyers]_vars

(***************************************************************************)
(* The calls of one rate limiter                                           *)
(***************************************************************************)
MaxRequests == 2

MaxClock == 4

MaxLimiterCalls == 4

Identifiers == {"user1", "user2"}

InitLimiter ==
  /\ fn = "none"
  /\ input = <<>>
  /\ returned = <<>>
  /\ rowsAfter = <<>>
  /\ buyers = <<>>
  /\ buyerHistory = <<>>
  /\ lastId = 0
  /\ createBuyerLimiter = InMemoryRateLimiter(WindowMs, CreatesPerWindow)
  /\ updateBuyerLimiter = InMemoryRateLimiter(WindowMs, UpdatesPerWindow)
  /\ history = <<>>
  /\ limiter \in {InMemoryRateLimiter(WindowMs, maxRequests) : maxRequests \in 1..MaxRequests}
  /\ clock = 0
  /\ calls = <<>>

\* a request handler awaits limiter.isAllowed(identifier)
IsAllowed ==
  /\ Len(calls) < MaxLimiterCalls
  /\ \E identifier \in Identifiers :
       \E call \in {isAllowed(limiter, identifier, clock)} :
         /\ limiter' = call.this
         /\ calls' = Append(calls, [identifier |-> identifier,
                                    now |-> clock,
                                    result |-> call.result])
  /\ UNCHANGED <<fn, input, returned, rowsAfter, buyers, buyerHistory, history, clock>>
  /\ UNCHANGED serverVars

\* the interval timer of the constructor fires
Cleanup ==
  /\ limiter' = cleanup(limiter, clock)
  /\ UNCHANGED <<fn, input, returned, rowsAfter, buyers, buyerHistory, history, clock, calls>>
  /\ UNCHANGED serverVars

\* time passes
Tick ==
  /\ clock < MaxClock
  /\ clock' = clock + 1
  /\ UNCHANGED <<fn, input, returned, rowsAfter, buyers, buyerHistory, history, limiter, calls>>
  /\ UNCHANGED serverVars

NextLimiter == IsAllowed \/ Cleanup \/ Tick

SpecLimiter == InitLimiter /\ [][NextLimiter]_vars

(***************************************************************************)
(* Properties of the validator                                             *)
(***************************************************************************)
\* the row is one of the valid base rows in every cell but those of `keys`
OtherCellsValid(row, keys) ==
  \E b \in BaseRows : \A key \in Headers \ keys : row[key] = b[key]

\* the cell is missing, empty or white space only
Blank(v) == v.t = "undefined" \/ trim(v.s) = <<>>

HasError(errors, field) == \E i \in 1..Len(errors) : errors[i].field = field

HasMessage(errors, field, message) ==
  \E i \in 1..Len(errors) : errors[i].field = field /\ errors[i].message = message

\* C1: a row that lacks one of the required cells fullName, phone, city,
\* propertyType, purpose, timeline, source is invalid and has an error whose
\* field is the name of the missing cell.
C1_MissingRequiredField ==
  fn = "validateCSVRow" =>
    \A key \in REQUIRED_CSV_HEADERS :
      input.row[key].t = "undefined" =>
        ~returned.isValid /\ HasError(returned.errors, key)

\* a row that lacks only its phone was validated and rejected
C1_Witness ==
  /\ fn = "validateCSVRow"
  /\ input.row.phone.t = "undefined"
  /\ OtherCellsValid(input.row, {"phone"})
  /\ ~returned.isValid
  /\ HasError(returned.errors, "phone")

\* C2: with the other cells valid, the error on bhk with the message "BHK is
\* required for Apartment and Villa properties" is reported exactly when
\* propertyType is Apartment or Villa and bhk is absent or blank; with
\* propertyType Plot, Office or Retail and bhk absent the row is valid.
C2_BhkRequired ==
  (fn = "validateCSVRow" /\ OtherCellsValid(input.row, {"propertyType", "bhk"})) =>
    LET propertyType == input.row.propertyType
        residential == propertyType.t = "string" /\ trim(propertyType.s) \in {Apartment, Villa}
        other == propertyType.t = "string"
                 /\ trim(propertyType.s) \in PropertyTypeEnum \ {Apartment, Villa}
    IN /\ HasMessage(returned.errors, "bhk",
                     "BHK is required for Apartment and Villa properties")
            <=> (residential /\ Blank(input.row.bhk))
       /\ (other /\ input.row.bhk.t = "undefined") =>
            returned.isValid /\ ~HasError(returned.errors, "bhk")

\* a Villa whose bhk cell holds white space only was rejected for its bhk
C2_Witness ==
  /\ fn = "validateCSVRow"
  /\ OtherCellsValid(input.row, {"propertyType", "bhk"})
  /\ input.row.propertyType = Str(Villa)
  /\ input.row.bhk = Str(<<" ">>)
  /\ HasMessage(returned.errors, "bhk", "BHK is required for Apartment and Villa properties")

\* the cell holds a decimal integer (what parseInt reads from it)
Present(v) == Truthy(v) /\ parseInt(v.s).t = "number"

\* C3: with the other cells valid, the error on budgetMax with the message
\* "Budget maximum must be greater than or equal to minimum" is reported
\* exactly when budgetMin and budgetMax are both present and
\* budgetMax < budgetMin.
C3_BudgetOrdering ==
  (fn = "validateCSVRow" /\ OtherCellsValid(input.row, {"budgetMin", "budgetMax"})) =>
    (HasMessage(returned.errors, "budgetMax",
                "Budget maximum must be greater than or equal to minimum")
       <=> (/\ Present(input.row.budgetMin)
            /\ Present(input.row.budgetMax)
            /\ parseInt(input.row.budgetMax.s).n < parseInt(input.row.budgetMin.s).n))

\* C4: with the other cells valid, the row is valid exactly when its phone
\* (trimmed, as every cell is) consists of 10 to 15 ASCII digits; any other
\* phone is rejected with an error on phone.
C4_Phone ==
  (fn = "validateCSVRow" /\ OtherCellsValid(input.row, {"phone"})
     /\ input.row.phone.t = "string") =>
    LET phone == trim(input.row.phone.s)
        digits == Len(phone) \in 10..15 /\ \A i \in 1..Len(phone) : phone[i] \in Digit
    IN /\ returned.isValid <=> digits
       /\ ~digits => HasError(returned.errors, "phone")

\* phones of 9 and of 16 digits and one with letters were rejected, one of
\* 15 digits accepted
C4_Witness ==
  /\ fn = "validateCSVRow"
  /\ OtherCellsValid(input.row, {"phone"})
  /\ input.row.phone.t = "string"
  /\ Len(input.row.phone.s) = 16
  /\ \A i \in 1..16 : input.row.phone.s[i] \in Digit
  /\ HasError(returned.errors, "phone")

EnumOf(key) ==
  CASE key = "city" -> CityEnum
    [] key = "propertyType" -> PropertyTypeEnum
    [] key = "purpose" -> PurposeEnum
    [] key = "timeline" -> TimelineEnum
    [] key = "source" -> SourceEnum
    [] key = "status" -> StatusEnum

\* C5: for city, propertyType, purpose, timeline, source and status, a value
\* (trimmed; for status, not blank) that is not exactly, case-sensitively, a
\* member of the field's closed set makes the row invalid with an error on
\* that field.
C5_EnumMembership ==
  fn = "validateCSVRow" =>
    \A key \in {"city", "propertyType", "purpose", "timeline", "source", "status"} :
      (/\ input.row[key].t = "string"
       /\ trim(input.row[key].s) \notin EnumOf(key)
       /\ (key = "status" => trim(input.row[key].s) # <<>>)) =>
        ~returned.isValid /\ HasError(returned.errors, key)

\* a city in the wrong case was rejected with an error on city
C5_Witness ==
  /\ fn = "validateCSVRow"
  /\ input.row.city = Str(<<"m", "o", "h", "a", "l", "i">>)
  /\ ~returned.isValid
  /\ HasError(returned.errors, "city")

(***************************************************************************)
(* Properties of the reconciler                                            *)
(***************************************************************************)
\* every cell of the row is a string, or missing
IsCsvRow(row) == \A key \in DOMAIN row : row[key].t \in {"undefined", "string"}

\* what the data model asks of a row, cell by cell, on the trimmed cells:
\* a budget is a string of digits with a value above 0
Conforms(row) ==
  LET text(key) == IF row[key].t = "undefined" THEN <<>> ELSE trim(row[key].s)
      given(key) == text(key) # <<>>
      amount(key) == row[key].t = "string" /\ row[key].s # <<>>
      positive(key) == /\ \A i \in 1..Len(row[key].s) : row[key].s[i] \in Digit
                       /\ DigitsValue(row[key].s) > 0
  IN /\ IsCsvRow(row)
     /\ Len(text("fullName")) \in MinNameLen..MaxNameLen
     /\ given("email") => isEmail(text("email"))
     /\ Len(text("phone")) \in MinPhoneLen..MaxPhoneLen
     /\ \A i \in 1..Len(text("phone")) : text("phone")[i] \in Digit
     /\ text("city") \in CityEnum
     /\ text("propertyType") \in PropertyTypeEnum
     /\ given("bhk") => text("bhk") \in BhkEnum
     /\ text("propertyType") \in {Apartment, Villa} => given("bhk")
     /\ text("purpose") \in PurposeEnum
     /\ amount("budgetMin") => positive("budgetMin")
     /\ amount("budgetMax") => positive("budgetMax")
     /\ (amount("budgetMin") /\ amount("budgetMax")) =>
          DigitsValue(row.budgetMax.s) >= DigitsValue(row.budgetMin.s)
     /\ text("timeline") \in TimelineEnum
     /\ text("source") \in SourceEnum
     /\ given("status") => text("status") \in StatusEnum
     /\ Len(text("notes")) <= MaxNotesLen

\* no cell of the row has white space around it
Unpadded(row) == \A key \in Headers : row[key].t = "string" => trim(row[key].s) = row[key].s

\* the Lead of the data model: the record the schema returns for the
\* trimmed, parsed and defaulted cells of the row
Lead(row) == safeParse(processedRow(row)).data

\* the elements of s at the positions in A, in their order in s
Sub(s, A) ==
  LET F[i \in 0..Len(s)] ==
        IF i = 0 THEN <<>> ELSE IF i \in A THEN Append(F[i - 1], s[i]) ELSE F[i - 1]
  IN F[Len(s)]

C7_Partition ==
  fn = "validateCSVData" =>
    LET csvData == input.csvData
        positions == 1..Len(csvData)
    IN /\ Len(returned.validRows) + Len(returned.invalidRows) = Len(csvData)
       /\ \E A \in SUBSET positions :
            /\ returned.validRows = Sub(csvData, A)
            /\ returned.invalidRows = Sub(csvData, positions \ A)
       /\ csvData = <<JohnOffice, JaneShortPhone, BobVilla>> =>
            /\ returned.validRows = <<JohnOffice, BobVilla>>
            /\ returned.invalidRows = <<JaneShortPhone>>

\* the batch of three rows with an invalid second one was reconciled
C7_Witness ==
  /\ fn = "validateCSVData"
  /\ input.csvData = <<JohnOffice, JaneShortPhone, BobVilla>>
  /\ Len(returned.validRows) = 2
  /\ Len(returned.invalidRows) = 1

\* the positions (1-based, ascending) of the rows that fail
FailingPositions(rows, Fails(_)) ==
  Sub([i \in 1..Len(rows) |-> i], {i \in 1..Len(rows) : Fails(rows[i])})

FailsCsv(row) == ~validateCSVRow(row, 1).isValid

FailsParsed(row) == ~safeParse(transformCsvRow(row)).success

FailsRecord(record) == ~safeParse(record).success

\* the row numbers of validateCSVData's errors are the positions of the
\* invalid rows, ascending; the record numbers of the import's errors too
PositionsReported ==
  /\ fn = "validateCSVData" =>
       /\ {returned.errors[k].row : k \in 1..Len(returned.errors)}
            = {i \in 1..Len(input.csvData) : FailsCsv(input.csvData[i])}
       /\ \A k \in 1..(Len(returned.errors) - 1) :
            returned.errors[k].row <= returned.errors[k + 1].row
  /\ (fn = "importPOST" /\ returned.status \in {200, 400}) =>
       [k \in 1..Len(returned.errors) |-> returned.errors[k].record]
         = FailingPositions(input.buyerData, FailsRecord)

\* C8 as claimed: every rejection carries the 1-based position of the
\* rejected row in the input, in validateCSVData, parseAndValidateCSV and
\* the import handler.
C8_RowNumberIsPosition ==
  /\ PositionsReported
  /\ fn = "parseAndValidateCSV" =>
       [k \in 1..Len(returned.invalidItems) |-> returned.invalidItems[k].row]
         = FailingPositions(input.data, FailsParsed)

\* C8 as amended: validateCSVData and the import handler report the 1-based
\* position of the rejected row; parseAndValidateCSV reports that position
\* plus one, the line of the row in a file whose first line is the header.
C8_RowNumberIsPositionOrLine ==
  /\ PositionsReported
  /\ fn = "parseAndValidateCSV" =>
       [k \in 1..Len(returned.invalidItems) |-> returned.invalidItems[k].row - 1]
         = FailingPositions(input.data, FailsParsed)

\* parseAndValidateCSV rejected the first of several rows and reported row 2
C8_Witness ==
  /\ fn = "parseAndValidateCSV"
  /\ Len(input.data) >= 2
  /\ FailsParsed(input.data[1])
  /\ returned.invalidItems # <<>>
  /\ returned.invalidItems[1].row = 2

\* C9: reconciling the empty batch gives a valid result with no accepted
\* row, no rejected row and no error.
C9_EmptyBatch ==
  (fn = "validateCSVData" /\ input.csvData = <<>>) =>
    returned = [isValid |-> TRUE, errors |-> <<>>, validRows |-> <<>>, invalidRows |-> <<>>]

\* the empty batch was reconciled
C9_Witness ==
  /\ fn = "validateCSVData"
  /\ input.csvData = <<>>
  /\ returned.isValid

\* the errors a result holds for the row at position i
ErrorsOf(result, i) ==
  LET AtRow(e) == e.row = i
  IN SelectSeq(result.errors, AtRow)

\* C10: in any two reconciliations made by one process, a row that stands
\* at the same position in both batches gets the same errors and the same
\* fate (accepted when it has no error, rejected otherwise), whatever the
\* other rows are and whatever was reconciled before; every row of every
\* batch has its fate reported.
C10_RowIsolation ==
  /\ \A a \in 1..Len(history) :
       LET call == history[a]
           clean == {i \in 1..Len(call.csvData) : ErrorsOf(call.result, i) = <<>>}
       IN /\ call.result.validRows = Sub(call.csvData, clean)
          /\ call.result.invalidRows = Sub(call.csvData, (1..Len(call.csvData)) \ clean)
  /\ \A a \in 1..Len(history), b \in 1..Len(history) :
       \A i \in 1..Len(history[a].csvData) :
         (i <= Len(history[b].csvData) /\ history[a].csvData[i] = history[b].csvData[i]) =>
           ErrorsOf(history[a].result, i) = ErrorsOf(history[b].result, i)

\* two different batches with the same invalid row at position 2, after
\* different first rows, were reconciled one after the other
C10_Witness ==
  /\ Len(history) = 2
  /\ Len(history[1].csvData) = 2
  /\ Len(history[2].csvData) = 2
  /\ history[1].csvData[1] # history[2].csvData[1]
  /\ history[1].csvData[2] = history[2].csvData[2]
  /\ FailsCsv(history[1].csvData[1])
  /\ ~FailsCsv(history[2].csvData[1])
  /\ ErrorsOf(history[1].result, 2) # <<>>

(***************************************************************************)
(* Properties of the error lists                                           *)
(***************************************************************************)
\* the rules a row can break, each read off the row itself
BreaksFullName(row) ==
  row.fullName.t = "undefined" \/ Len(trim(row.fullName.s)) \notin MinNameLen..MaxNameLen

BreaksPhone(row) ==
  \/ row.phone.t = "undefined"
  \/ Len(trim(row.phone.s)) \notin MinPhoneLen..MaxPhoneLen
  \/ \E i \in 1..Len(trim(row.phone.s)) : trim(row.phone.s)[i] \notin Digit

BreaksCity(row) == row.city.t = "undefined" \/ trim(row.city.s) \notin CityEnum

BreaksBhkRequired(row) ==
  /\ row.propertyType.t = "string"
  /\ trim(row.propertyType.s) \in {Apartment, Villa}
  /\ Blank(row.bhk)

\* both budgets are strings of digits above 0 and the maximum is the smaller
BreaksBudgetOrdering(row) ==
  /\ \A key \in {"budgetMin", "budgetMax"} :
       /\ row[key].t = "string"
       /\ row[key].s # <<>>
       /\ \A i \in 1..Len(row[key].s) : row[key].s[i] \in Digit
       /\ DigitsValue(row[key].s) > 0
  /\ DigitsValue(row.budgetMax.s) < DigitsValue(row.budgetMin.s)

Broken(row) ==
  {key \in {"fullName", "phone", "city", "bhk"} :
     CASE key = "fullName" -> BreaksFullName(row)
       [] key = "phone" -> BreaksPhone(row)
       [] key = "city" -> BreaksCity(row)
       [] key = "bhk" -> BreaksBhkRequired(row)}

\* C11: a row that breaks several of the rules on fullName, phone, city and
\* the required bhk has at least 2 errors, at least one on the field of each
\* rule it breaks, and every error carries the row's number.
C11_OneErrorPerViolation ==
  (fn = "validateCSVRow" /\ IsCsvRow(input.row) /\ Cardinality(Broken(input.row)) >= 2) =>
    /\ Len(returned.errors) >= 2
    /\ \A i \in 1..Len(returned.errors) : returned.errors[i].row = input.rowNumber
    /\ \A key \in Broken(input.row) : HasError(returned.errors, key)

\* C12: the two cross-field checks are reported whatever errors the fields
\* have: a row that lacks the bhk its Apartment or Villa needs has the bhk
\* error, and a row whose budgetMax is below its budgetMin has the ordering
\* error, also when its city, or any other field, is invalid.
C12_CrossFieldWithFieldErrors ==
  (fn = "validateCSVRow" /\ IsCsvRow(input.row)) =>
    /\ BreaksBhkRequired(input.row) =>
         HasMessage(returned.errors, "bhk",
                    "BHK is required for Apartment and Villa properties")
    /\ BreaksBudgetOrdering(input.row) =>
         HasMessage(returned.errors, "budgetMax",
                    "Budget maximum must be greater than or equal to minimum")

\* C13: a validation failure is a returned value, never an exception: for
\* every row, also one with missing, malformed or wrongly typed cells,
\* validateCSVRow returns a result that is invalid exactly when its error
\* list is not empty, with every error carrying the row's number; and
\* validateCSVData returns an outcome for the whole batch in which every
\* row that fails validation is a rejected row with an error of its own.
C13_NeverThrows ==
  /\ fn = "validateCSVRow" =>
       /\ ~IsThrown(returned)
       /\ returned.isValid <=> returned.errors = <<>>
       /\ \A i \in 1..Len(returned.errors) : returned.errors[i].row = input.rowNumber
       /\ IsThrown(processedRow(input.row)) => ~returned.isValid
  /\ fn = "validateCSVData" =>
       /\ ~IsThrown(returned)
       /\ Len(returned.validRows) + Len(returned.invalidRows) = Len(input.csvData)
       /\ returned.isValid <=> returned.invalidRows = <<>>
       /\ \A i \in 1..Len(input.csvData) :
            (IsThrown(processedRow(input.csvData[i]))
               \/ ~safeParse(processedRow(input.csvData[i])).success) =>
              /\ \E k \in 1..Len(returned.invalidRows) :
                   returned.invalidRows[k] = input.csvData[i]
              /\ \E k \in 1..Len(returned.errors) : returned.errors[k].row = i

\* a batch with a row whose fullName is a number was reconciled: the row
\* was rejected with an error on "general"
C13_Witness ==
  /\ fn = "validateCSVData"
  /\ Len(input.csvData) >= 2
  /\ input.csvData[2] = NumberName
  /\ ~returned.isValid
  /\ \E k \in 1..Len(returned.errors) :
       returned.errors[k].row = 2 /\ returned.errors[k].field = "general"
  /\ \E k \in 1..Len(returned.invalidRows) : returned.invalidRows[k] = NumberName

(***************************************************************************)
(* Properties of the normalization                                         *)
(***************************************************************************)
\* the pieces of s between its commas, trimmed, the empty ones left out, in
\* their order in s
ExpectedTags(s) ==
  LET cuts == {0, Len(s) + 1} \cup {i \in 1..Len(s) : s[i] = ","}
      next(c) == CHOOSE d \in cuts : d > c /\ \A e \in cuts : e > c => d <= e
      piece(c) == trim(SubSeq(s, c + 1, next(c) - 1))
      kept == {c \in cuts \ {Len(s) + 1} : piece(c) # <<>>}
      nth(k) == CHOOSE c \in kept : Cardinality({d \in kept : d < c}) = k - 1
  IN [k \in 1..Cardinality(kept) |-> piece(nth(k))]

\* C14: the tags of a record are the pieces of the tags string between its
\* commas, each trimmed, the empty ones dropped, in input order, duplicates
\* kept; "urgent, family ,," gives urgent, family; a missing or empty tags
\* string gives the empty sequence.  So it is for the tags validateCSVRow
\* hands to the schema and for the tags of a record parseAndValidateCSV
\* accepts.
C14_TagsNormalized ==
  /\ (fn = "validateCSVRow" /\ IsCsvRow(input.row)) =>
       /\ processedRow(input.row).tags =
            Arr(IF input.row.tags.t = "undefined" THEN <<>>
                ELSE ExpectedTags(input.row.tags.s))
       /\ input.row.tags = BobVilla.tags =>
            processedRow(input.row).tags
              = Arr(<<<<"u", "r", "g", "e", "n", "t">>, <<"f", "a", "m", "i", "l", "y">>>>)
  /\ (fn = "parseAndValidateCSV" /\ Len(input.data) = 1 /\ Len(returned.validItems) = 1) =>
       /\ returned.validItems[1].tags =
            Arr(IF input.data[1].tags.t = "undefined" THEN <<>>
                ELSE ExpectedTags(input.data[1].tags.s))
       /\ input.data[1].tags = BobVilla.tags =>
            returned.validItems[1].tags
              = Arr(<<<<"u", "r", "g", "e", "n", "t">>, <<"f", "a", "m", "i", "l", "y">>>>)

\* a file of one row whose tags cell has the same tag twice, the second
\* after a space, was parsed and the row accepted with the tag twice
C14_Witness ==
  /\ fn = "parseAndValidateCSV"
  /\ Len(input.data) = 1
  /\ input.data[1].tags = Str(<<"a", ",", " ", "a">>)
  /\ Len(returned.validItems) = 1
  /\ returned.validItems[1].tags = Arr(<<<<"a">>, <<"a">>>>)

\* C15: a row whose status is missing, empty or white space only is
\* accepted, other cells valid, with status New; a status that is not blank
\* is kept (trimmed), never replaced by New.  So it is for the record
\* validateCSVRow hands to the schema and for the record parseAndValidateCSV
\* returns.
C15_StatusDefault ==
  /\ (fn = "validateCSVRow" /\ IsCsvRow(input.row)
        /\ OtherCellsValid(input.row, {"status"})) =>
       IF Blank(input.row.status)
       THEN returned.isValid /\ processedRow(input.row).status = Str(New)
       ELSE processedRow(input.row).status = Str(trim(input.row.status.s))
  /\ (fn = "parseAndValidateCSV" /\ Len(input.data) = 1
        /\ OtherCellsValid(input.data[1], {"status"})) =>
       IF Blank(input.data[1].status)
       THEN Len(returned.validItems) = 1 /\ returned.validItems[1].status = Str(New)
       ELSE \A k \in 1..Len(returned.validItems) :
              returned.validItems[k].status.s = trim(input.data[1].status.s)

\* the cell holds a string that is not a decimal integer (after trimming:
\* an optional sign, then digits only)
NotAnInteger(v) ==
  /\ v.t = "string"
  /\ trim(v.s) # <<>>
  /\ LET text == trim(v.s)
         digits == IF text[1] \in {"-", "+"} THEN Tail(text) ELSE text
     IN digits = <<>> \/ \E i \in 1..Len(digits) : digits[i] \notin Digit

\* C16: a budgetMin or budgetMax that is present and not an integer counts
\* as absent: the row, other cells valid, is accepted without an error on
\* the budget, and the accepted record has no such budget.
C16_UnparseableBudgetAbsent ==
  \A key \in {"budgetMin", "budgetMax"} :
    /\ (fn = "validateCSVRow" /\ IsCsvRow(input.row)
          /\ OtherCellsValid(input.row, {key}) /\ NotAnInteger(input.row[key])) =>
         returned.isValid /\ ~HasError(returned.errors, key)
    /\ (fn = "parseAndValidateCSV" /\ Len(input.data) = 1
          /\ OtherCellsValid(input.data[1], {key}) /\ NotAnInteger(input.data[1][key])) =>
         /\ Len(returned.validItems) = 1
         /\ returned.validItems[1][key] = Undefined

\* the cell holds a decimal integer that is zero or negative
NotPositive(v) ==
  /\ v.t = "string"
  /\ v.s # <<>>
  /\ LET digits == IF v.s[1] = "-" THEN Tail(v.s) ELSE v.s
     IN /\ digits # <<>>
        /\ \A i \in 1..Len(digits) : digits[i] \in Digit
        /\ v.s[1] = "-" \/ DigitsValue(digits) = 0

\* C17: a row whose budgetMin or budgetMax is the decimal of zero or of a
\* negative integer is invalid, whatever its other cells, with an error on
\* that budget field; parseAndValidateCSV rejects the row too.
C17_PositiveBudgets ==
  \A key \in {"budgetMin", "budgetMax"} :
    /\ (fn = "validateCSVRow" /\ IsCsvRow(input.row) /\ NotPositive(input.row[key])) =>
         ~returned.isValid /\ HasError(returned.errors, key)
    /\ (fn = "parseAndValidateCSV" /\ Len(input.data) = 1
          /\ NotPositive(input.data[1][key])) =>
         returned.validItems = <<>> /\ Len(returned.invalidItems) = 1

\* a row with budgetMin 0 and the other cells valid was rejected for its
\* budgetMin
C17_Witness ==
  /\ fn = "validateCSVRow"
  /\ OtherCellsValid(input.row, {"budgetMin"})
  /\ input.row.budgetMin = Str(<<"0">>)
  /\ ~returned.isValid
  /\ HasError(returned.errors, "budgetMin")

(***************************************************************************)
(* Properties of the rate limiter                                          *)
(***************************************************************************)
\* the calls before call j that name the identifier of call j
Earlier(j) == {i \in 1..(j - 1) : calls[i].identifier = calls[j].identifier}

\* for each call, the call that opened its window: the first call for the
\* identifier, and then each call made more than windowMs after the call
\* that opened the window before
Opener ==
  LET F[j \in 1..Len(calls)] ==
        IF Earlier(j) = {} THEN j
        ELSE LET p == CHOOSE i \in Earlier(j) : \A e \in Earlier(j) : e <= i
             IN IF calls[j].now > calls[F[p]].now + limiter.windowMs THEN j ELSE F[p]
  IN F

\* call j is the k-th call of its window
Place(j) ==
  Cardinality({i \in 1..j : calls[i].identifier = calls[j].identifier
                            /\ Opener[i] = Opener[j]})

\* C18: with maxRequests = N, the k-th call of a window for an identifier
\* is allowed with remaining N - k when k <= N, and rejected with remaining
\* 0 when k > N, both with the resetTime of the window's first call; a
\* rejection leaves the stored count and resetTime as they were.
C18_WithinWindow ==
  /\ \A j \in 1..Len(calls) :
       calls[j].result =
         [allowed |-> Place(j) <= limiter.maxRequests,
          resetTime |-> calls[Opener[j]].now + limiter.windowMs,
          remaining |-> IF Place(j) <= limiter.maxRequests
                        THEN limiter.maxRequests - Place(j) ELSE 0]
  /\ \A j \in 1..Len(calls) :
       (/\ \A i \in (j + 1)..Len(calls) : calls[i].identifier # calls[j].identifier
        /\ has(limiter.store, calls[j].identifier)) =>
         get(limiter.store, calls[j].identifier) =
           [key |-> calls[j].identifier,
            count |-> IF Place(j) <= limiter.maxRequests
                      THEN Place(j) ELSE limiter.maxRequests,
            resetTime |-> calls[Opener[j]].now + limiter.windowMs]

\* three calls for one identifier in one window of a limiter with
\* maxRequests 2: the third, made later in the window, was rejected
C18_Witness ==
  /\ limiter.maxRequests = 2
  /\ Len(calls) = 3
  /\ \A j \in 1..3 : calls[j].identifier = "user1"
  /\ calls[3].now > calls[1].now
  /\ Place(3) = 3
  /\ ~calls[3].result.allowed
  /\ calls[3].result.resetTime = calls[1].result.resetTime

\* C19: when an identifier has used up its limit and more than windowMs
\* has passed since the first call of that window, its next call is allowed
\* with remaining maxRequests - 1 and resetTime now + windowMs, and the
\* entry stored for it is a new one with count 1.
C19_NewWindow ==
  \A j \in 1..Len(calls) :
    (/\ Earlier(j) # {}
     /\ \E p \in Earlier(j) :
          /\ \A e \in Earlier(j) : e <= p
          /\ Place(p) >= limiter.maxRequests
          /\ calls[j].now > calls[Opener[p]].now + limiter.windowMs) =>
      /\ calls[j].result = [allowed |-> TRUE,
                            resetTime |-> calls[j].now + limiter.windowMs,
                            remaining |-> limiter.maxRequests - 1]
      /\ (j = Len(calls) /\ clock = calls[j].now) =>
           /\ has(limiter.store, calls[j].identifier)
           /\ get(limiter.store, calls[j].identifier) =
                [key |-> calls[j].identifier,
                 count |-> 1,
                 resetTime |-> calls[j].now + limiter.windowMs]

\* a limiter with maxRequests 1 allowed a call, rejected the next and,
\* after the window, allowed a third
C19_Witness ==
  /\ limiter.maxRequests = 1
  /\ Len(calls) = 3
  /\ \A j \in 1..3 : calls[j].identifier = "user1"
  /\ calls[1].result.allowed
  /\ ~calls[2].result.allowed
  /\ calls[3].now > calls[1].now + limiter.windowMs
  /\ calls[3].result.allowed
  /\ get(limiter.store, "user1").count = 1

\* what call j returns when the calls for other identifiers are left out:
\* the calls for its identifier, at their times, on a limiter of its own
Alone(j) ==
  LET own[i \in 0..(j - 1)] ==
        IF i = 0 THEN InMemoryRateLimiter(limiter.windowMs, limiter.maxRequests)
        ELSE IF calls[i].identifier = calls[j].identifier
        THEN isAllowed(own[i - 1], calls[i].identifier, calls[i].now).this
        ELSE own[i - 1]
  IN isAllowed(own[j - 1], calls[j].identifier, calls[j].now).result

\* C20: what isAllowed returns for an identifier is what it returns when
\* the calls for the other identifiers, wherever they fall between its own,
\* are not made at all.
C20_Independent == \A j \in 1..Len(calls) : calls[j].result = Alone(j)

\* with maxRequests 1, two identifiers were each allowed once and each
\* rejected once, their calls alternating
C20_Witness ==
  /\ limiter.maxRequests = 1
  /\ Len(calls) = 4
  /\ calls[1].identifier = "user1" /\ calls[1].result.allowed
  /\ calls[2].identifier = "user2" /\ calls[2].result.allowed
  /\ calls[3].identifier = "user1" /\ ~calls[3].result.allowed
  /\ calls[4].identifier = "user2" /\ ~calls[4].result.allowed

(***************************************************************************)
(* Properties of trimming and of empty cells                               *)
(***************************************************************************)
TrimmedFields ==
  {"fullName", "phone", "city", "propertyType", "bhk", "purpose", "timeline", "source",
   "notes", "status"}

\* the row with white space put around the strings of the cells in `keys`
Padded(row, keys) ==
  [key \in DOMAIN row |->
     IF key \in keys /\ row[key].t = "string"
     THEN Str(<<" ">> \o row[key].s \o <<"\t", " ">>)
     ELSE row[key]]

\* C21: white space around fullName, phone, city, propertyType, bhk,
\* purpose, timeline, source, notes and status is trimmed before any check:
\* a row and the row with white space added around any of these cells get
\* the same validation result, from validateCSVRow and from
\* parseAndValidateCSV.
C21_TrimmedBeforeChecks ==
  /\ (fn = "validateCSVRow" /\ IsCsvRow(input.row)) =>
       \A keys \in {{key} : key \in TrimmedFields} \cup {TrimmedFields} :
         validateCSVRow(Padded(input.row, keys), input.rowNumber) = returned
  /\ (fn = "parseAndValidateCSV" /\ Len(input.data) = 1) =>
       \A keys \in {{key} : key \in TrimmedFields} \cup {TrimmedFields} :
         LET padded == parseAndValidateCSV(<<Padded(input.data[1], keys)>>)
         IN /\ Len(padded.validItems) = Len(returned.validItems)
            /\ Len(padded.invalidItems) = Len(returned.invalidItems)

\* the optional cells of the row that hold the empty string
EmptyCells(row) == {key \in OptionalFields : row[key] = Str(<<>>)}

\* the row without the cells in `keys`
Omit(row, keys) == [key \in DOMAIN row |-> IF key \in keys THEN Undefined ELSE row[key]]

\* C22: an empty string in an optional cell (email, bhk, budgetMin,
\* budgetMax, notes, tags, status) is treated as an absent cell: the row and
\* the row with any of its empty optional cells left out get the same result,
\* from validateCSVRow and from parseAndValidateCSV.
C22_EmptyIsAbsent ==
  /\ (fn = "validateCSVRow" /\ IsCsvRow(input.row)) =>
       \A keys \in SUBSET EmptyCells(input.row) :
         validateCSVRow(Omit(input.row, keys), input.rowNumber) = returned
  /\ (fn = "parseAndValidateCSV" /\ Len(input.data) = 1) =>
       \A keys \in SUBSET EmptyCells(input.data[1]) :
         parseAndValidateCSV(<<Omit(input.data[1], keys)>>) = returned

\* a file of one row with every optional cell empty was accepted
C22_Witness ==
  /\ fn = "parseAndValidateCSV"
  /\ Len(input.data) = 1
  /\ EmptyCells(input.data[1]) = OptionalFields
  /\ Len(returned.validItems) = 1
  /\ returned.validItems[1].status = Str(New)

ValidatedFor(buyerData, userId) ==
  LET valid == {i \in 1..Len(buyerData) : safeParse(buyerData[i]).success}
      records == [i \in 1..Len(buyerData) |->
                    IF i \in valid THEN withOwner(safeParse(buyerData[i]).data, userId)
                    ELSE <<>>]
  IN Sub(records, valid)

\* C24: for every non-empty batch posted by a signed-in user the import
\* handler stores exactly the records that pass validation, owned by that
\* user, and none of the rejected ones, however many were rejected; when it
\* reports counts, imported + skipped = total.
C24_StoresWhatValidated ==
  (fn = "importPOST" /\ Truthy(input.userId) /\ Len(input.buyerData) > 0) =>
    /\ Len(buyers) = Len(ValidatedFor(input.buyerData, input.userId))
    /\ \A k \in 1..Len(buyers) :
         /\ buyers[k] = insertedRow(k, ValidatedFor(input.buyerData, input.userId)[k])
         /\ buyers[k].ownerId = input.userId
    /\ returned.status = 200 =>
         /\ returned.imported + returned.skipped = returned.total
         /\ returned.imported = Len(buyers)
         /\ returned.total = Len(input.buyerData)

(***************************************************************************)
(* The result of validateCSVData                                           *)
(***************************************************************************)
\* C26: the result of validateCSVData is consistent for every batch:
\* isValid is true exactly when invalidRows is empty and exactly when errors
\* is empty; the row numbers of the errors are 1-based positions of the
\* batch, and the rows at these positions, in order, are invalidRows, so
\* every error is on a row of invalidRows and every row of invalidRows has
\* an error with its number.
C26_ResultConsistent ==
  fn = "validateCSVData" =>
    LET rowNumbers == {returned.errors[k].row : k \in 1..Len(returned.errors)}
    IN /\ returned.isValid <=> returned.invalidRows = <<>>
       /\ returned.isValid <=> returned.errors = <<>>
       /\ rowNumbers \subseteq 1..Len(input.csvData)
       /\ Sub(input.csvData, rowNumbers) = returned.invalidRows

\* a batch whose second row failed the schema and whose third row could not
\* be processed
C26_Witness ==
  /\ fn = "validateCSVData"
  /\ input.csvData = <<JohnOffice, JaneShortPhone, NumberName>>
  /\ ~returned.isValid
  /\ returned.invalidRows = <<JaneShortPhone, NumberName>>
  /\ {returned.errors[k].row : k \in 1..Len(returned.errors)} = {2, 3}

(***************************************************************************)
(* Bounds of the limiter and its cleanup                                   *)
(***************************************************************************)
\* the allowed calls for the identifier in the window that ends at resetTime
AllowedIn(identifier, resetTime) ==
  {j \in 1..Len(calls) : /\ calls[j].identifier = identifier
                         /\ calls[j].result.allowed
                         /\ calls[j].result.resetTime = resetTime}

\* C27: in every state each entry of the store has 1 <= count <=
\* maxRequests; however the calls of the request handlers interleave, at
\* most maxRequests calls are allowed for one identifier in one window, and
\* remaining is never negative.
C27_Bounded ==
  /\ \A e \in limiter.store : 1 <= e.count /\ e.count <= limiter.maxRequests
  /\ \A j \in 1..Len(calls) :
       /\ Cardinality(AllowedIn(calls[j].identifier, calls[j].result.resetTime))
            <= limiter.maxRequests
       /\ calls[j].result.remaining >= 0

\* with maxRequests 2, a call for another identifier fell between the calls
\* of an identifier that used up its window and was then rejected
C27_Witness ==
  /\ limiter.maxRequests = 2
  /\ Len(calls) = 4
  /\ calls[2].identifier = "user2"
  /\ \A j \in {1, 3, 4} : calls[j].identifier = "user1"
  /\ Cardinality(AllowedIn("user1", calls[1].result.resetTime)) = 2
  /\ ~calls[4].result.allowed
  /\ calls[4].result.remaining = 0
  /\ get(limiter.store, "user1").count = 2

\* the limiter after the first i calls when the timer never fires
NeverCleaned ==
  LET F[i \in 0..Len(calls)] ==
        IF i = 0 THEN InMemoryRateLimiter(limiter.windowMs, limiter.maxRequests)
        ELSE isAllowed(F[i - 1], calls[i].identifier, calls[i].now).this
  IN F

\* C28: cleanup is transparent: whenever the timer fired between the
\* calls, every call returned the allowed, remaining and resetTime it
\* returns when the timer never fires, and the store differs from the store
\* of that run only by entries whose window has expired (now > resetTime).
C28_CleanupTransparent ==
  /\ \A j \in 1..Len(calls) :
       calls[j].result
         = isAllowed(NeverCleaned[j - 1], calls[j].identifier, calls[j].now).result
  /\ limiter.store \subseteq NeverCleaned[Len(calls)].store
  /\ \A e \in NeverCleaned[Len(calls)].store \ limiter.store : clock > e.resetTime

\* the timer deleted the expired entry of one identifier and kept the entry
\* of another, whose window ends now and who was then rejected
C28_Witness ==
  /\ limiter.maxRequests = 1
  /\ Len(calls) = 3
  /\ calls[1].identifier = "user1"
  /\ ~has(limiter.store, "user1")
  /\ calls[2].identifier = "user2" /\ calls[2].result.allowed
  /\ calls[3].identifier = "user2" /\ ~calls[3].result.allowed
  /\ calls[3].now = calls[2].result.resetTime
  /\ clock = calls[3].now

(***************************************************************************)
(* The pagination of the list                                              *)
(***************************************************************************)
\* C30: whatever the page and limit parameters hold (absent, not a number,
\* zero, negative, very large), the page is an integer >= 1, the limit an
\* integer from 1 to 50 (10 when absent), the offset (page - 1) * limit >= 0,
\* hasPreviousPage is page > 1 and hasNextPage is page <
\* ceil(totalCount / limit).
C30_Pagination ==
  (fn = "buyersGET" /\ Truthy(input.userId)) =>
    /\ returned.page.t = "number" /\ returned.page.n >= 1
    /\ returned.limit.t = "number"
    /\ returned.limit.n >= 1 /\ returned.limit.n <= MaxLimit
    /\ ~Truthy(input.limit) => returned.limit.n = DefaultLimit
    /\ returned.offset = Num((returned.page.n - 1) * returned.limit.n)
    /\ returned.offset.n >= 0
    /\ returned.hasPreviousPage <=> returned.page.n > 1
    /\ returned.hasNextPage <=>
         returned.page.n * returned.limit.n < input.totalCount

(***************************************************************************)
(* What the table holds and who changes it                                 *)
(***************************************************************************)
\* the invariants of a Lead, on a stored row
LeadInvariants(row) ==
  /\ pgEnum(CityEnum, row.city)
  /\ pgEnum(PropertyTypeEnum, row.propertyType)
  /\ pgEnum(PurposeEnum, row.purpose)
  /\ pgEnum(TimelineEnum, row.timeline)
  /\ pgEnum(SourceEnum, row.source)
  /\ pgEnum(StatusEnum, row.status)
  /\ nullable(row.bhk) \/ pgEnum(BhkEnum, row.bhk)
  /\ row.propertyType.s \in {Apartment, Villa} => pgEnum(BhkEnum, row.bhk)
  /\ (row.budgetMin.t = "number" /\ row.budgetMax.t = "number") =>
       row.budgetMax.n >= row.budgetMin.n

\* the issues buyerSchema has with the values of these keys alone
FieldIssues(values) ==
  objectSchema([key \in Headers \cup {"attachmentUrl"} |->
                  IF key \in DOMAIN values THEN values[key]
                  ELSE IF key \in REQUIRED_CSV_HEADERS THEN JohnOffice[key]
                  ELSE Undefined])

\* C25: after any sequence of create, import, full update and status-only
\* update requests every stored buyer satisfies the invariants of a Lead
\* (each enum field, status included, holds a label of its set; bhk is set
\* for an Apartment or a Villa; budgetMax >= budgetMin when both are set),
\* and no request hands the table a value that buyerSchema has not passed.
C25_WritesValidated ==
  /\ \A k \in 1..Len(buyers) : LeadInvariants(buyers[k])
  /\ fn \in {"buyersPOST", "importPOST", "buyerPUT"} =>
       \A k \in 1..Len(returned.handed) : FieldIssues(returned.handed[k]) = <<>>

\* the part of C25 on the stored rows
C25_StoredRows == \A k \in 1..Len(buyers) : LeadInvariants(buyers[k])


\* the signed-in user is no admin and the stored buyer with the id belongs
\* to somebody else
Outsider(userId, buyerId) ==
  /\ Truthy(userId)
  /\ ~isUserAdmin(userId)
  /\ \E k \in 1..Len(buyers) : buyers[k].id = Num(buyerId) /\ buyers[k].ownerId # userId

\* a PUT or DELETE that leaves both tables as they were and is answered
\* with one of the statuses
RefusedWith(statuses) ==
  /\ returned'.status \in statuses
  /\ returned'.handed = <<>>
  /\ buyers' = buyers
  /\ buyerHistory' = buyerHistory

====
